---- MODULE Spec2Model ----
(***************************************************************************)
(* Valuation calculation engine of equity-valuation-model.                 *)
(*                                                                         *)
(* The engine is a set of model classes (DCFModel, ThreeStatementModel,    *)
(* LBOModel, CompsModel, PrecedentTransactionModel, ...) that are          *)
(* constructed over one CompanyData snapshot and asked for a result.  The  *)
(* snapshot is a heap object the caller keeps: a model holds a reference   *)
(* to it (this.data = data), never a copy, so what a model writes into it  *)
(* is what the caller and every later model sees.                          *)
(*                                                                         *)
(* Numbers.  The source computes in IEEE doubles.  The model computes in   *)
(* fixed point: money is a whole number of currency units, a rate, margin, *)
(* factor or multiple is a whole number of thousandths (Scale), and every  *)
(* product and quotient is rounded down (\div), the counterpart of the     *)
(* rounding of a double operation.  Formulas keep the order of the source. *)
(***************************************************************************)
EXTENDS Integers, Sequences, FiniteSets, TLC

VARIABLES
    data,     \* the caller's CompanyData snapshot (shared with the model)
    overrides, \* the inputs object the caller handed to the constructor
    inputs,   \* this.inputs of the model instance under study
    peers,    \* this.peers of a CompsModel (<<>> for the other models)
    values,   \* an array a caller hands to calculatePercentile
    calls     \* history: one record per finished public call, oldest first

vars == <<data, overrides, inputs, peers, values, calls>>

(***************************************************************************)
(* Fixed-point arithmetic                                                  *)
(***************************************************************************)
Scale == 10 * 10 * 10          \* a rate r is held as r * Scale

\* An optional value is <<>> when it is missing (undefined) and <<v>> when
\* it is present.
undefined == <<>>
Some(v) == <<v>>
\* the doubles that are not finite
NaN == "NaN"
Infinity == "Infinity"
MinusInfinity == "-Infinity"

Mul(x, r) == (x * r) \div Scale          \* x * r, r a rate
Div(x, y) == (x * Scale) \div y          \* x / y as a rate, y # 0
Quot(x, r) == (x * Scale) \div r         \* x / r, r a rate, r # 0

Last(s) == s[Len(s)]

\* a ?? b, a an optional value
Coalesce(a, b) == IF a = undefined THEN b ELSE a[1]

\* a || b, a an optional number (undefined and 0 are falsy)
OrElse(a, b) == IF a = undefined \/ a = Some(0) THEN b ELSE a[1]

RECURSIVE Pow(_, _)
\* Math.pow(base, n) for a rate base and a whole n >= 0
Pow(base, n) == IF n = 0 THEN Scale ELSE Mul(Pow(base, n - 1), base)

RECURSIVE SumSeq(_)
SumSeq(s) == IF s = <<>> THEN 0 ELSE s[1] + SumSeq(Tail(s))

(***************************************************************************)
(* CompanyData: the newest period is the last element of each series.      *)
(***************************************************************************)
lastStatementOf(d) == Last(d.incomeStatements)
lastBalanceOf(d)   == Last(d.balanceSheets)

(***************************************************************************)
(* DCFModel                                                                *)
(***************************************************************************)
defaultGrowth == <<150, 120, 100, 80, 60>>
defaultProjectionYears == 5
defaultTerminalGrowth == 25
defaultTaxRate == 210
defaultRiskFreeRate == 40
defaultMarketRiskPremium == 50
costOfDebt == 40
equityWeight == 700
debtWeight == 300
dcfEbitdaMargin == 300
dAndAPercent == 50
capexPercent == 80
nwcPercent == 30

\* constructor: the default WACC, from the hard-wired CAPM parameters
defaultWACC(d) ==
    LET beta == OrElse(d.profile.beta, Scale)
        costOfEquity == defaultRiskFreeRate + Mul(beta, defaultMarketRiskPremium)
    IN  Mul(costOfEquity, equityWeight)
          + Mul(Mul(costOfDebt, debtWeight), Scale - defaultTaxRate)

\* constructor: this.inputs from the overrides o (a field is undefined when
\* the caller did not supply it); projectionYears is not read from o
DCFModel(d, o) ==
    [ projectionYears   |-> defaultProjectionYears,
      revenueGrowth     |-> Coalesce(o.revenueGrowth, defaultGrowth),
      terminalGrowth    |-> Coalesce(o.terminalGrowth, defaultTerminalGrowth),
      wacc              |-> Coalesce(o.wacc, defaultWACC(d)),
      taxRate           |-> Coalesce(o.taxRate, defaultTaxRate),
      riskFreeRate      |-> Coalesce(o.riskFreeRate, defaultRiskFreeRate),
      marketRiskPremium |-> Coalesce(o.marketRiskPremium, defaultMarketRiskPremium),
      beta              |-> Coalesce(o.beta, OrElse(d.profile.beta, Scale)) ]

\* calculateWACC(): the WACC of the instance's effective inputs; a private
\* method that no other method of the class calls
calculateWACC(inp) ==
    LET costOfEquity == inp.riskFreeRate + Mul(inp.beta, inp.marketRiskPremium)
    IN  Mul(costOfEquity, equityWeight)
          + Mul(Mul(costOfDebt, debtWeight), Scale - inp.taxRate)

\* revenueGrowth[year - 1] || revenueGrowth[revenueGrowth.length - 1]
\* (|| takes the right side when the left is undefined or 0)
growthRate(revenueGrowth, year) ==
    IF year <= Len(revenueGrowth) /\ revenueGrowth[year] # 0
    THEN revenueGrowth[year]
    ELSE Last(revenueGrowth)

\* one pass of the projection loop body, up to projections.push
ProjectionRow(year, currentRevenue0, lastRevenue, inp) ==
    LET currentRevenue == Mul(currentRevenue0, Scale + growthRate(inp.revenueGrowth, year))
        ebitda    == Mul(currentRevenue, dcfEbitdaMargin)
        dAndA     == Mul(currentRevenue, dAndAPercent)
        ebit      == ebitda - dAndA
        nopat     == Mul(ebit, Scale - inp.taxRate)
        capex     == Mul(currentRevenue, capexPercent)
        nwcChange == Mul(currentRevenue - lastRevenue, nwcPercent)
        fcf       == nopat + dAndA - capex - nwcChange
        discountFactor == Pow(Scale + inp.wacc, year)
    IN  [ year |-> year, revenue |-> currentRevenue, ebitda |-> ebitda,
          ebit |-> ebit, nopat |-> nopat, dAndA |-> dAndA, capex |-> capex,
          nwcChange |-> nwcChange, fcf |-> fcf,
          discountFactor |-> discountFactor,
          presentValue |-> Quot(fcf, discountFactor) ]

\* lastStatement.revenue = currentRevenue: lastStatement is the snapshot's own
\* newest income statement, so this writes into the caller's CompanyData
StoreRevenue(d, currentRevenue) ==
    [d EXCEPT !.incomeStatements[Len(d.incomeStatements)].revenue = currentRevenue]

RECURSIVE ProjectionLoop(_, _, _, _, _)
\* the for loop of calculateProjections from `year` on; d is the snapshot as
\* the loop has left it so far
ProjectionLoop(year, currentRevenue, d, inp, projections) ==
    IF year > inp.projectionYears
    THEN [projections |-> projections, data |-> d]
    ELSE LET row == ProjectionRow(year, currentRevenue,
                                  lastStatementOf(d).revenue, inp)
         IN  ProjectionLoop(year + 1, row.revenue,
                            StoreRevenue(d, row.revenue), inp,
                            Append(projections, row))

calculateProjections(d, inp) ==
    ProjectionLoop(1, lastStatementOf(d).revenue, d, inp, <<>>)

\* mutant of calculateTerminalValue: the operands of the denominator swapped
calculateTerminalValueSwapped(projections, inp) ==
    Quot(Mul(Last(projections).fcf, Scale + inp.terminalGrowth),
         inp.terminalGrowth - inp.wacc)

calculateTerminalValue(projections, inp) ==
    Quot(Mul(Last(projections).fcf, Scale + inp.terminalGrowth),
         inp.wacc - inp.terminalGrowth)

calculateEnterpriseValue(projections, terminalValue, inp) ==
    LET pvOfProjections == SumSeq([i \in 1..Len(projections) |->
                                      projections[i].presentValue])
        pvOfTerminal == Quot(terminalValue,
                             Pow(Scale + inp.wacc, inp.projectionYears))
    IN  pvOfProjections + pvOfTerminal

\* mutant of calculateEquityValue: cash is added to the debt, not netted
calculateEquityValueCashAdded(d, enterpriseValue) ==
    LET lastBalance == lastBalanceOf(d)
        netDebt == lastBalance.totalDebt + lastBalance.cashAndEquivalents
        equityValue == enterpriseValue - netDebt
        impliedSharePrice == equityValue \div d.profile.sharesOutstanding
        currentPrice == d.stockPrice.current
    IN  [ netDebt |-> netDebt, impliedSharePrice |-> impliedSharePrice,
          upside |-> Div(impliedSharePrice - currentPrice, currentPrice) ]

calculateEquityValue(d, enterpriseValue) ==
    LET lastBalance == lastBalanceOf(d)
        netDebt == lastBalance.totalDebt - lastBalance.cashAndEquivalents
        equityValue == enterpriseValue - netDebt
        impliedSharePrice == equityValue \div d.profile.sharesOutstanding
        currentPrice == d.stockPrice.current
    IN  [ netDebt |-> netDebt, impliedSharePrice |-> impliedSharePrice,
          upside |-> Div(impliedSharePrice - currentPrice, currentPrice) ]

\* calculate(): the DCFValuation it returns and the snapshot it leaves
calculate(d, inp) ==
    LET p  == calculateProjections(d, inp)
        tv == calculateTerminalValue(p.projections, inp)
        ev == calculateEnterpriseValue(p.projections, tv, inp)
        eq == calculateEquityValue(p.data, ev)
    IN  [ result |->
            [ assumptions |->
                [ revenueGrowth |-> inp.revenueGrowth,
                  ebitdaMargin |-> [i \in 1..Len(p.projections) |->
                      IF p.projections[i].revenue = 0 THEN NaN
                      ELSE Div(p.projections[i].ebitda, p.projections[i].revenue)],
                  taxRate |-> inp.taxRate,
                  terminalGrowth |-> inp.terminalGrowth,
                  wacc |-> inp.wacc ],
              projections |-> p.projections,
              terminalValue |-> tv,
              enterpriseValue |-> ev,
              netDebt |-> eq.netDebt,
              equityValue |-> ev - eq.netDebt,
              sharesOutstanding |-> p.data.profile.sharesOutstanding,
              impliedSharePrice |-> eq.impliedSharePrice,
              currentPrice |-> p.data.stockPrice.current,
              upside |-> eq.upside ],
          data |-> p.data ]

RECURSIVE SensitivityCells(_, _, _, _, _, _)
RECURSIVE SensitivityCell(_, _, _, _, _, _)
\* the body of the inner loop once calculate() has returned c: the price is
\* pushed on the row and the loops go on over the snapshot calculate() left
SensitivityCell(k, waccRange, growthRange, c, inp, prices) ==
    SensitivityCells(k + 1, waccRange, growthRange, c.data, inp,
                     Append(prices, c.result.impliedSharePrice))

\* the two nested loops of sensitivityAnalysis, flattened: cell k (from 0) is
\* the pair waccRange[k \div n + 1], growthRange[k % n + 1], n = Len(growthRange);
\* each cell first assigns this.inputs.wacc and this.inputs.terminalGrowth
SensitivityCells(k, waccRange, growthRange, d, inp, prices) ==
    IF k >= Len(waccRange) * Len(growthRange)
    THEN [prices |-> prices, data |-> d, inputs |-> inp]
    ELSE LET cellInputs ==
                 [inp EXCEPT !.wacc = waccRange[(k \div Len(growthRange)) + 1],
                             !.terminalGrowth = growthRange[(k % Len(growthRange)) + 1]]
         IN  SensitivityCell(k, waccRange, growthRange,
                             calculate(d, cellInputs), cellInputs, prices)

\* the restore at the end of sensitivityAnalysis: this.inputs.wacc and
\* this.inputs.terminalGrowth get their saved values back
RestoreInputs(inp, originalWACC, originalTerminalGrowth) ==
    [inp EXCEPT !.wacc = originalWACC, !.terminalGrowth = originalTerminalGrowth]

\* the matrix sensitivityAnalysis returns, with the snapshot and this.inputs
\* as it leaves them; cells is what the loops produced
SensitivityResult(cells, waccRange, growthRange, originalWACC, originalTerminalGrowth) ==
    [ result |-> [i \in 1..Len(waccRange) |->
                    [j \in 1..Len(growthRange) |->
                        cells.prices[(i - 1) * Len(growthRange) + j]]],
      data   |-> cells.data,
      inputs |-> RestoreInputs(cells.inputs, originalWACC, originalTerminalGrowth) ]

sensitivityAnalysis(d, inp, waccRange, growthRange) ==
    SensitivityResult(SensitivityCells(0, waccRange, growthRange, d, inp, <<>>),
                      waccRange, growthRange, inp.wacc, inp.terminalGrowth)

(***************************************************************************)
(* ThreeStatementModel                                                     *)
(***************************************************************************)
tsProjectionYears == 5
tsGrossMargin == 400
tsOperatingMargin == 200
tsTaxRate == 210
tsDaysAR == 45
tsDaysInventory == 60
tsDaysAP == 30
daysPerYear == 365
tsInterestRate == 50
tsDepreciationRate == 50
tsPpeOfAssets == 400
tsPpeOfGrowth == 300
tsOtherLiabilities == 100
tsPriorCogsShare == 600

\* constructor: the defaults with the supplied inputs spread over them
ThreeStatementModel(o) ==
    [ projectionYears |-> Coalesce(o.projectionYears, tsProjectionYears),
      revenueGrowth   |-> Coalesce(o.revenueGrowth, <<150, 120, 100, 80, 60>>),
      grossMargin     |-> Coalesce(o.grossMargin, tsGrossMargin),
      operatingMargin |-> Coalesce(o.operatingMargin, tsOperatingMargin),
      taxRate         |-> Coalesce(o.taxRate, tsTaxRate),
      workingCapitalDays |->
          [ar |-> tsDaysAR, inventory |-> tsDaysInventory, ap |-> tsDaysAP] ]

\* revenueGrowth[year - 1] || revenueGrowth[revenueGrowth.length - 1]
growth(revenueGrowth, year) ==
    IF year <= Len(revenueGrowth) /\ revenueGrowth[year] # 0
    THEN revenueGrowth[year]
    ELSE Last(revenueGrowth)

\* the income-statement block of one loop pass
IncomeRow(year, lastIncome, lastBalance, inp) ==
    LET revenue == Mul(lastIncome.revenue, Scale + growth(inp.revenueGrowth, year))
        cogs == Mul(revenue, Scale - inp.grossMargin)
        grossProfit == revenue - cogs
        operatingIncome == Mul(revenue, inp.operatingMargin)
        interestExpense == Mul(lastBalance.totalDebt, tsInterestRate)
        preTaxIncome == operatingIncome - interestExpense
        tax == Mul(preTaxIncome, inp.taxRate)
    IN  [ year |-> year, revenue |-> revenue, costOfGoodsSold |-> cogs,
          grossProfit |-> grossProfit,
          operatingExpenses |-> grossProfit - operatingIncome,
          operatingIncome |-> operatingIncome,
          interestExpense |-> interestExpense,
          preTaxIncome |-> preTaxIncome, tax |-> tax,
          netIncome |-> preTaxIncome - tax ]

\* the balance-sheet block of one loop pass
BalanceRow(year, income, lastIncome, lastBalance, inp) ==
    LET days == inp.workingCapitalDays
        ar == (income.revenue \div daysPerYear) * days.ar
        inventory == (income.costOfGoodsSold \div daysPerYear) * days.inventory
        ap == (income.costOfGoodsSold \div daysPerYear) * days.ap
        ppe == Mul(lastBalance.totalAssets, tsPpeOfAssets)
                 + Mul(income.revenue - lastIncome.revenue, tsPpeOfGrowth)
        totalCurrentAssets == lastBalance.cashAndEquivalents + ar + inventory
        totalAssets == totalCurrentAssets + ppe
        totalCurrentLiabilities == ap + Mul(income.revenue, tsOtherLiabilities)
        totalDebt == lastBalance.totalDebt
        totalLiabilities == totalCurrentLiabilities + totalDebt
        equity == totalAssets - totalLiabilities
    IN  [ year |-> year, cash |-> lastBalance.cashAndEquivalents,
          accountsReceivable |-> ar, inventory |-> inventory,
          totalCurrentAssets |-> totalCurrentAssets, ppe |-> ppe,
          totalAssets |-> totalAssets, accountsPayable |-> ap,
          totalCurrentLiabilities |-> totalCurrentLiabilities,
          totalDebt |-> totalDebt, totalLiabilities |-> totalLiabilities,
          equity |-> equity,
          totalLiabilitiesAndEquity |-> totalLiabilities + equity ]

\* the cash-flow block of one loop pass
CashFlowRow(year, income, balance, lastIncome, lastBalance, inp) ==
    LET days == inp.workingCapitalDays
        priorCogs == Mul(lastIncome.revenue, tsPriorCogsShare)
        changeInWC ==
            (balance.accountsReceivable
                 - (lastIncome.revenue \div daysPerYear) * days.ar)
            + (balance.inventory - (priorCogs \div daysPerYear) * days.inventory)
            - (balance.accountsPayable - (priorCogs \div daysPerYear) * days.ap)
        depreciation == Mul(lastBalance.totalAssets, tsDepreciationRate)
        operatingCF == income.netIncome + depreciation - changeInWC
        capex == balance.ppe - Mul(lastBalance.totalAssets, tsPpeOfAssets) + depreciation
        investingCF == -capex
        debtIssuance == 0
        financingCF == debtIssuance
        netChangeInCash == operatingCF + investingCF + financingCF
    IN  [ year |-> year, netIncome |-> income.netIncome,
          depreciation |-> depreciation, changeInWorkingCapital |-> changeInWC,
          operatingCashFlow |-> operatingCF, capex |-> capex,
          investingCashFlow |-> investingCF, debtIssuance |-> debtIssuance,
          financingCashFlow |-> financingCF, netChangeInCash |-> netChangeInCash,
          beginningCash |-> lastBalance.cashAndEquivalents,
          endingCash |-> lastBalance.cashAndEquivalents + netChangeInCash ]

\* mutant of CarryCash: the ending cash is not carried into the next year
CarryCashDropped(d, endingCash) == d

\* lastBalance.cashAndEquivalents = endingCash: lastBalance is the snapshot's
\* own newest balance sheet, so the accumulator lives in the caller's data
CarryCash(d, endingCash) ==
    [d EXCEPT !.balanceSheets[Len(d.balanceSheets)].cashAndEquivalents = endingCash]

\* lastIncome = { ...lastIncome, revenue, netIncome }: a fresh object
CarryIncome(lastIncome, income) ==
    [lastIncome EXCEPT !.revenue = income.revenue, !.netIncome = income.netIncome]

RECURSIVE ProjectLoop(_, _, _, _, _)
\* the for loop of project() from `year` on; out holds the three lists
ProjectLoop(year, lastIncome, d, inp, out) ==
    IF year > inp.projectionYears
    THEN [result |-> out, data |-> d]
    ELSE LET lastBalance == lastBalanceOf(d)
             income == IncomeRow(year, lastIncome, lastBalance, inp)
             balance == BalanceRow(year, income, lastIncome, lastBalance, inp)
             cashFlow == CashFlowRow(year, income, balance, lastIncome,
                                     lastBalance, inp)
         IN  ProjectLoop(year + 1, CarryIncome(lastIncome, income),
                         CarryCash(d, cashFlow.endingCash), inp,
                         [ incomeStatements |-> Append(out.incomeStatements, income),
                           balanceSheets |-> Append(out.balanceSheets, balance),
                           cashFlowStatements |->
                               Append(out.cashFlowStatements, cashFlow) ])

\* project(): the ThreeStatementResult it returns and the snapshot it leaves
project(d, inp) ==
    ProjectLoop(1, lastStatementOf(d), d, inp,
                [ incomeStatements |-> <<>>, balanceSheets |-> <<>>,
                  cashFlowStatements |-> <<>> ])

(***************************************************************************)
(* LBOModel                                                                *)
(***************************************************************************)
lboPriceMarkup == 1300
lboPremium == 300
lboDebtRatio == 600
lboEquityRatio == 400
lboInterestRate == 80
lboExitMultiple == 10000
lboHoldingPeriod == 5
lboRevenueGrowth == 80
lboEbitdaMargin == 250
seniorShare == 700
mezzanineShare == 300
lboDAndARate == 50
lboTaxRate == 210
lboCapexRate == 50
lboNwcRate == 20

Min(a, b) == IF a < b THEN a ELSE b

getNetDebt(d) ==
    lastBalanceOf(d).totalDebt - lastBalanceOf(d).cashAndEquivalents

\* constructor: this.inputs from the overrides o
LBOModel(d, o) ==
    [ purchasePrice |-> Coalesce(o.purchasePrice,
                                 Mul(d.stockPrice.current, lboPriceMarkup)),
      premium       |-> Coalesce(o.premium, lboPremium),
      debtRatio     |-> Coalesce(o.debtRatio, lboDebtRatio),
      equityRatio   |-> Coalesce(o.equityRatio, lboEquityRatio),
      interestRate  |-> Coalesce(o.interestRate, lboInterestRate),
      exitMultiple  |-> Coalesce(o.exitMultiple, lboExitMultiple),
      holdingPeriod |-> Coalesce(o.holdingPeriod, lboHoldingPeriod),
      revenueGrowth |-> Coalesce(o.revenueGrowth, lboRevenueGrowth),
      ebitdaMargin  |-> Coalesce(o.ebitdaMargin, lboEbitdaMargin) ]

calculateEntry(d, inp) ==
    LET equityValue == inp.purchasePrice * d.profile.sharesOutstanding
        enterpriseValue == equityValue + getNetDebt(d)
    IN  [ purchasePrice |-> inp.purchasePrice, premium |-> inp.premium,
          enterpriseValue |-> enterpriseValue, equityValue |-> equityValue,
          debtFinancing |-> Mul(enterpriseValue, inp.debtRatio),
          equityContribution |-> Mul(enterpriseValue, inp.equityRatio) ]

calculateDebtStructure(entry, inp) ==
    LET seniorDebt == Mul(entry.debtFinancing, seniorShare)
        mezzanineDebt == Mul(entry.debtFinancing, mezzanineShare)
        totalDebt == seniorDebt + mezzanineDebt
    IN  [ seniorDebt |-> seniorDebt, mezzanineDebt |-> mezzanineDebt,
          totalDebt |-> totalDebt, interestRate |-> inp.interestRate,
          annualInterest |-> Mul(totalDebt, inp.interestRate) ]

\* mutant of DebtRepayment: the whole free cash flow is swept, uncapped
DebtRepaymentUncapped(freeCashFlow, endingDebt) == freeCashFlow

\* the cash sweep: Math.min(freeCashFlow, endingDebt)
DebtRepayment(freeCashFlow, endingDebt) == Min(freeCashFlow, endingDebt)

\* one pass of the projection loop; revenue0 and endingDebt0 are the loop's
\* running revenue and debt on entry to the pass
LBORow(year, revenue0, endingDebt0, inp) ==
    LET revenue == Mul(revenue0, Scale + inp.revenueGrowth)
        ebitda == Mul(revenue, inp.ebitdaMargin)
        dAndA == Mul(revenue, lboDAndARate)
        ebit == ebitda - dAndA
        interest == Mul(endingDebt0, inp.interestRate)
        netIncome == Mul(ebit - interest, Scale - lboTaxRate)
        capex == Mul(revenue, lboCapexRate)
        nwcChange == Mul(revenue, lboNwcRate)
        freeCashFlow == netIncome + dAndA - capex - nwcChange
        debtRepayment == DebtRepayment(freeCashFlow, endingDebt0)
    IN  [ year |-> year, revenue |-> revenue, ebitda |-> ebitda, ebit |-> ebit,
          interest |-> interest, netIncome |-> netIncome,
          freeCashFlow |-> freeCashFlow, debtRepayment |-> debtRepayment,
          endingDebt |-> endingDebt0 - debtRepayment ]

RECURSIVE LBOLoop(_, _, _, _, _)
LBOLoop(year, revenue, endingDebt, inp, projections) ==
    IF year > inp.holdingPeriod
    THEN projections
    ELSE LET row == LBORow(year, revenue, endingDebt, inp)
         IN  LBOLoop(year + 1, row.revenue, row.endingDebt, inp,
                     Append(projections, row))

lboCalculateProjections(d, debt, inp) ==
    LBOLoop(1, lastStatementOf(d).revenue, debt.totalDebt, inp, <<>>)

calculateExit(finalProjection, inp) ==
    LET exitEV == Mul(finalProjection.ebitda, inp.exitMultiple)
    IN  [ exitYear |-> inp.holdingPeriod, exitEBITDA |-> finalProjection.ebitda,
          exitMultiple |-> inp.exitMultiple, exitEV |-> exitEV,
          netDebt |-> finalProjection.endingDebt,
          equityValue |-> exitEV - finalProjection.endingDebt ]

RECURSIVE PowUpTo(_, _, _)
\* Math.pow(base, n) for base > 0, or cap + 1 as soon as a partial product
\* is known to be above cap
PowUpTo(base, n, cap) ==
    IF n = 0 THEN Scale
    ELSE LET q == PowUpTo(base, n - 1, cap)
         IN  IF q > ((cap \div base) + 1) * Scale THEN cap + 1 ELSE Mul(q, base)

RECURSIVE RootBetween(_, _, _, _)
\* the largest rate r in lo..hi-1 with r^n <= x
RootBetween(lo, hi, x, n) ==
    IF hi - lo <= 1 THEN lo
    ELSE LET mid == (lo + hi) \div 2
         IN  IF PowUpTo(mid, n, x) <= x THEN RootBetween(mid, hi, x, n)
                                        ELSE RootBetween(lo, mid, x, n)

\* Math.pow(x, 1 / n) for a finite x >= 0 and a whole n >= 1
Root(x, n) ==
    IF x = 0 THEN 0 ELSE RootBetween(1, (IF x > Scale THEN x ELSE Scale) + 1, x, n)

\* moic = equityReturned / equityInvested and irr = Math.pow(moic, 1 / years) - 1
\* in doubles: x / 0 is Infinity, -Infinity or (0 / 0) NaN, the root of
\* either infinity is Infinity and the root of a negative number is NaN
calculateReturns(entry, exit, inp) ==
    LET equityInvested == entry.equityContribution
        equityReturned == exit.equityValue
        finite == equityInvested # 0
        moic == IF finite THEN Div(equityReturned, equityInvested)
                ELSE IF equityReturned > 0 THEN Infinity
                ELSE IF equityReturned < 0 THEN MinusInfinity
                ELSE NaN
        irr == IF finite
               THEN IF Div(equityReturned, equityInvested) < 0 THEN NaN
                    ELSE Root(Div(equityReturned, equityInvested),
                              inp.holdingPeriod) - Scale
               ELSE IF equityReturned = 0 THEN NaN ELSE Infinity
    IN  [ irr |-> irr, moic |-> moic,
          grossProfit |-> equityReturned - equityInvested ]

\* LBOModel.calculate(): the LBOResult it returns (it writes nothing)
lboCalculate(d, inp) ==
    LET entry == calculateEntry(d, inp)
        debt == calculateDebtStructure(entry, inp)
        projections == lboCalculateProjections(d, debt, inp)
        exit == calculateExit(Last(projections), inp)
    IN  [ entry |-> entry, debt |-> debt, projections |-> projections,
          exit |-> exit, returns |-> calculateReturns(entry, exit, inp) ]

(***************************************************************************)
(* Statistics helper shared (as two copies of the same code) by CompsModel *)
(* and PrecedentTransactionModel.  A statistic is an optional number: it   *)
(* is undefined where the source yields undefined or NaN.                  *)
(***************************************************************************)
RECURSIVE Insert(_, _)
\* x put into the ascending sequence s
Insert(x, s) ==
    IF s = <<>> THEN <<x>>
    ELSE IF x <= s[1] THEN <<x>> \o s
    ELSE <<s[1]>> \o Insert(x, Tail(s))

RECURSIVE SortAscending(_)
\* [...values].sort((a, b) => a - b): a sorted copy
SortAscending(s) ==
    IF s = <<>> THEN <<>> ELSE Insert(s[1], SortAscending(Tail(s)))

\* mutant of PercentileIndex: the rank is taken over n instead of n - 1
PercentileIndexOverLength(percentile, n) == Mul(n, (percentile * Scale) \div 100)

\* Math.floor((percentile / 100) * (n - 1)), an index counted from 0
PercentileIndex(percentile, n) == Mul(n - 1, (percentile * Scale) \div 100)

\* [...values]: calculatePercentile sorts a copy, so the array the caller
\* passed is, after the call, the array it passed
ArrayAfterPercentile(vals) == vals

\* CompsModel.calculatePercentile
calculatePercentile(vals, percentile) ==
    LET sorted == SortAscending(vals)
        index == PercentileIndex(percentile, Len(sorted))
    IN  IF index + 1 \in 1..Len(sorted) THEN Some(sorted[index + 1]) ELSE undefined

\* PrecedentTransactionModel.calculatePercentile
precedentCalculatePercentile(vals, percentile) ==
    LET sorted == SortAscending(vals)
        index == PercentileIndex(percentile, Len(sorted))
    IN  IF index + 1 \in 1..Len(sorted) THEN Some(sorted[index + 1]) ELSE undefined

(***************************************************************************)
(* CompsModel                                                              *)
(***************************************************************************)
peerCount == 8
evRevenueBound == 50000
evEbitdaBound == 50000
peBound == 100000
lowPercentile == 25
medianPercentile == 50
highPercentile == 75

\* one generated peer; r holds the six Math.random() draws, in call order
Peer(i, baseRevenue, r) ==
    LET variance == 500 + r[1]
        revenue == Mul(Mul(baseRevenue, variance), 300 + Mul(r[2], 1500))
        ebitda == Mul(revenue, 150 + Mul(r[3], 200))
        netIncome == Mul(ebitda, 500 + Mul(r[4], 300))
        ev == Mul(ebitda, 8000 + Mul(r[5], 8000))
        marketCap == Mul(ev, 800 + Mul(r[6], 300))
    IN  [ symbol |-> <<"PEER", i>>, marketCap |-> marketCap, enterpriseValue |-> ev,
          revenue |-> revenue, ebitda |-> ebitda, netIncome |-> netIncome ]

\* generatePeers(): draws[i] are the draws made for peer i
generatePeers(d, draws) ==
    [i \in 1..peerCount |-> Peer(i, lastStatementOf(d).revenue, draws[i])]

getTargetMetrics(d) ==
    LET lastIncome == lastStatementOf(d)
        lastBalance == lastBalanceOf(d)
    IN  [ symbol |-> d.profile.symbol, revenue |-> lastIncome.revenue,
          ebitda |-> lastIncome.ebitda, netIncome |-> lastIncome.netIncome,
          marketCap |-> d.profile.marketCap,
          enterpriseValue |-> d.profile.marketCap + lastBalance.totalDebt
                                - lastBalance.cashAndEquivalents ]

\* the numerator and the denominator of a company's multiple
Numerator(c, kind) == IF kind = "pe" THEN c.marketCap ELSE c.enterpriseValue
Denominator(c, kind) ==
    IF kind = "evRevenue" THEN c.revenue
    ELSE IF kind = "evEbitda" THEN c.ebitda
    ELSE c.netIncome

\* mutant of InBounds: the upper bound is not applied
InBoundsBelowOnly(m, bound) == m > 0

\* the filter predicate m > 0 && m < bound
InBounds(m, bound) == m > 0 /\ m < bound

RECURSIVE FilteredMultiples(_, _, _)
\* allCompanies.map(c => num / den).filter(m => m > 0 && m < bound); a
\* quotient by 0 is Infinity, -Infinity or NaN, which the filter drops
FilteredMultiples(companies, kind, bound) ==
    IF companies = <<>> THEN <<>>
    ELSE LET c == companies[1]
             rest == FilteredMultiples(Tail(companies), kind, bound)
         IN  IF Denominator(c, kind) = 0 THEN rest
             ELSE IF InBounds(Div(Numerator(c, kind), Denominator(c, kind)), bound)
                  THEN <<Div(Numerator(c, kind), Denominator(c, kind))>> \o rest
                  ELSE rest

\* the local function stats of calculateMultiples
stats(vals) ==
    [ low    |-> calculatePercentile(vals, lowPercentile),
      median |-> calculatePercentile(vals, medianPercentile),
      high   |-> calculatePercentile(vals, highPercentile),
      mean   |-> IF vals = <<>> THEN undefined
                 ELSE Some(SumSeq(vals) \div Len(vals)) ]

compsCalculateMultiples(d, prs) ==
    LET t == getTargetMetrics(d)
        allCompanies == prs \o << [ symbol |-> d.profile.symbol,
                                    marketCap |-> t.marketCap,
                                    enterpriseValue |-> t.enterpriseValue,
                                    revenue |-> t.revenue, ebitda |-> t.ebitda,
                                    netIncome |-> t.netIncome ] >>
    IN  [ evRevenue |-> stats(FilteredMultiples(allCompanies, "evRevenue", evRevenueBound)),
          evEbitda  |-> stats(FilteredMultiples(allCompanies, "evEbitda", evEbitdaBound)),
          pe        |-> stats(FilteredMultiples(allCompanies, "pe", peBound)) ]

\* x * m for an optional multiple m
Times(x, m) == IF m = undefined THEN undefined ELSE Some(Mul(x, m[1]))

compsCalculateValuation(d, multiples) ==
    LET t == getTargetMetrics(d)
        range(x, st) == [ low |-> Times(x, st.low), base |-> Times(x, st.median),
                          high |-> Times(x, st.high) ]
    IN  [ evRevenue |-> range(t.revenue, multiples.evRevenue),
          evEbitda  |-> range(t.ebitda, multiples.evEbitda),
          pe        |-> range(t.netIncome, multiples.pe) ]

compsCalculateImpliedSharePrice(d, valuation) ==
    LET sharesOutstanding == d.profile.sharesOutstanding
        netDebt == lastBalanceOf(d).totalDebt - lastBalanceOf(d).cashAndEquivalents
        evToEquity(ev) == IF ev = undefined THEN undefined
                          ELSE Some((ev[1] - netDebt) \div sharesOutstanding)
        perShare(v) == IF v = undefined THEN undefined
                       ELSE Some(v[1] \div sharesOutstanding)
    IN  [ evRevenue |-> [ k \in {"low", "base", "high"} |-> evToEquity(valuation.evRevenue[k]) ],
          evEbitda  |-> [ k \in {"low", "base", "high"} |-> evToEquity(valuation.evEbitda[k]) ],
          pe        |-> [ k \in {"low", "base", "high"} |-> perShare(valuation.pe[k]) ] ]

\* CompsModel.analyze(): the CompsResult it returns (it writes nothing)
analyze(d, prs) ==
    LET multiples == compsCalculateMultiples(d, prs)
        valuation == compsCalculateValuation(d, multiples)
    IN  [ target |-> getTargetMetrics(d), peers |-> prs,
          multiples |-> multiples, valuation |-> valuation,
          impliedSharePrice |-> compsCalculateImpliedSharePrice(d, valuation) ]

(***************************************************************************)
(* MAModel: constructed over two snapshots, the acquirer's and the         *)
(* target's.  Earnings per share are held in thousandths of a currency     *)
(* unit.                                                                   *)
(***************************************************************************)
maPremium == 300
maCashPercent == 400
maStockPercent == 400
maDebtPercent == 200
maInterestRate == 60
maCostSynergyShare == 20
maTaxRate == 210

\* constructor: this.inputs from the overrides o; every default is taken
\* with ||, so a supplied 0 is replaced by the default as well
MAModel(target, o) ==
    LET targetPrice == OrElse(o.targetPrice, target.stockPrice.current)
        totalConsideration ==
            Mul(targetPrice, Scale + OrElse(o.premium, maPremium))
              * target.profile.sharesOutstanding
    IN  [ targetSymbol |-> target.profile.symbol,
          targetPrice  |-> targetPrice,
          premium      |-> OrElse(o.premium, maPremium),
          cashPercent  |-> OrElse(o.cashPercent, maCashPercent),
          stockPercent |-> OrElse(o.stockPercent, maStockPercent),
          debtPercent  |-> OrElse(o.debtPercent, maDebtPercent),
          interestRate |-> OrElse(o.interestRate, maInterestRate),
          synergies    |->
            [ cost    |-> IF o.synergies = undefined \/ o.synergies[1].cost = 0
                          THEN Mul(totalConsideration, maCostSynergyShare)
                          ELSE o.synergies[1].cost,
              revenue |-> IF o.synergies = undefined
                          THEN 0 ELSE o.synergies[1].revenue ] ]

calculateDeal(acquirer, target, inp) ==
    LET offerPrice == Mul(inp.targetPrice, Scale + inp.premium)
        totalConsideration == offerPrice * target.profile.sharesOutstanding
        stockComponent == Mul(totalConsideration, inp.stockPercent)
    IN  [ targetPrice |-> inp.targetPrice, premium |-> inp.premium,
          offerPrice |-> offerPrice,
          totalConsideration |-> totalConsideration,
          cashComponent |-> Mul(totalConsideration, inp.cashPercent),
          stockComponent |-> stockComponent,
          debtComponent |-> Mul(totalConsideration, inp.debtPercent),
          sharesIssued |-> stockComponent \div acquirer.stockPrice.current ]

getAcquirerStandalone(acquirer) ==
    [ netIncome |-> lastStatementOf(acquirer).netIncome,
      sharesOutstanding |-> acquirer.profile.sharesOutstanding,
      eps |-> Div(lastStatementOf(acquirer).netIncome,
                  acquirer.profile.sharesOutstanding) ]

calculateProForma(acquirer, target, inp, deal) ==
    LET acquirerIncome == lastStatementOf(acquirer)
        targetIncome == lastStatementOf(target)
        ebit == acquirerIncome.operatingIncome + targetIncome.operatingIncome
        additionalInterest == Mul(deal.debtComponent, inp.interestRate)
        interestExpense == (acquirerIncome.ebitda - acquirerIncome.operatingIncome)
                             + additionalInterest
        preTaxIncome == ebit - interestExpense
        netIncome == preTaxIncome - Mul(preTaxIncome, maTaxRate)
        sharesOutstanding == acquirer.profile.sharesOutstanding + deal.sharesIssued
    IN  [ revenue |-> acquirerIncome.revenue + targetIncome.revenue,
          ebitda |-> acquirerIncome.ebitda + targetIncome.ebitda,
          ebit |-> ebit, interestExpense |-> interestExpense,
          netIncome |-> netIncome, sharesOutstanding |-> sharesOutstanding,
          eps |-> Div(netIncome, sharesOutstanding) ]

calculateAccretionDilution(standalone, proForma) ==
    [ epsImpact |-> proForma.eps - standalone.eps,
      percentChange |-> Div(proForma.eps - standalone.eps, standalone.eps),
      isAccretive |-> proForma.eps - standalone.eps > 0 ]

calculateSynergies(acquirer, inp, deal) ==
    LET totalPretax == inp.synergies.cost + inp.synergies.revenue
        afterTax == Mul(totalPretax, Scale - maTaxRate)
    IN  [ costSynergies |-> inp.synergies.cost,
          revenueSynergies |-> inp.synergies.revenue,
          totalPretax |-> totalPretax, afterTax |-> afterTax,
          epsAccretion |-> Div(afterTax, acquirer.profile.sharesOutstanding
                                           + deal.sharesIssued) ]

calculateCreditMetrics(acquirer, target, deal) ==
    LET preDebtEbitda == lastStatementOf(acquirer).ebitda
        postDebtEbitda == preDebtEbitda + lastStatementOf(target).ebitda
        acquirerDebt == lastBalanceOf(acquirer).totalDebt
    IN  [ preDebtEbitda |-> preDebtEbitda, postDebtEbitda |-> postDebtEbitda,
          leveragePre |-> Div(acquirerDebt, preDebtEbitda),
          leveragePost |-> Div(acquirerDebt + deal.debtComponent, postDebtEbitda) ]

Max(a, b) == IF a >= b THEN a ELSE b

calculateBreakEven(acquirer, target, inp, deal, standalone) ==
    LET proFormaShares == acquirer.profile.sharesOutstanding + deal.sharesIssued
        epsGap == standalone.eps - calculateProForma(acquirer, target, inp, deal).eps
        targetIncome == lastStatementOf(target).netIncome
        maxPremium ==
            Div(Mul(proFormaShares, standalone.eps)
                  - (acquirer.incomeStatements[1].netIncome + targetIncome),
                targetIncome)
    IN  [ requiredSynergies |->
            IF epsGap > 0 THEN Quot(Mul(proFormaShares, epsGap), Scale - maTaxRate)
                          ELSE 0,
          requiredPremium |-> Max(0, maxPremium) ]

\* what analyze() returns once the deal and the standalone figures are known
MAResult(acquirer, target, inp, deal, standalone) ==
    [ deal |-> deal,
      proForma |-> calculateProForma(acquirer, target, inp, deal),
      acquirerStandalone |-> standalone,
      accretionDilution |->
          calculateAccretionDilution(standalone,
                                     calculateProForma(acquirer, target, inp, deal)),
      synergies |-> calculateSynergies(acquirer, inp, deal),
      creditMetrics |-> calculateCreditMetrics(acquirer, target, deal),
      breakEven |-> calculateBreakEven(acquirer, target, inp, deal, standalone) ]

maAnalyze(acquirer, target, inp) ==
    MAResult(acquirer, target, inp, calculateDeal(acquirer, target, inp),
             getAcquirerStandalone(acquirer))

(***************************************************************************)
(* Snapshots and calls                                                     *)
(***************************************************************************)
MaxCalls == 3          \* public calls made on one instance
MaxRevenue == 40000    \* calls are made while the latest revenue is at most this

\* a two-period CompanyData whose newest period has the given figures
Snapshot(revenue, ebitda, netIncome, totalDebt, cash, shares, price) ==
    [ profile |-> [ symbol |-> "TGT", marketCap |-> shares * price,
                    sharesOutstanding |-> shares, beta |-> Some(1200) ],
      incomeStatements |->
        << [ revenue |-> 3000, ebitda |-> 800, netIncome |-> 300 ],
           [ revenue |-> revenue, ebitda |-> ebitda, netIncome |-> netIncome ] >>,
      balanceSheets |->
        << [ totalAssets |-> 9000, totalDebt |-> 2000, cashAndEquivalents |-> 700 ],
           [ totalAssets |-> 10000, totalDebt |-> totalDebt,
             cashAndEquivalents |-> cash ] >>,
      stockPrice |-> [ current |-> price ] ]

\* one finished call: what was called, what it returned, and the snapshot
\* and instance inputs as they were when it was entered
Call(op, result, d, inp) ==
    [op |-> op, result |-> result, before |-> d, inputsBefore |-> inp]

CanCall == /\ Len(calls) < MaxCalls
           /\ lastStatementOf(data).revenue <= MaxRevenue

(***************************************************************************)
(* DCF: one DCFModel over one snapshot; the caller calls calculate() and   *)
(* sensitivityAnalysis() in any order.                                     *)
(***************************************************************************)
DCFSnapshots ==
    { Snapshot(revenue, 1000, 300, totalDebt, 500, 100, 20) :
        revenue \in {0, 4000, 10000}, totalDebt \in {0, 3000} }

GrowthArrays == { <<100>>, <<0, 100>>, <<50, 0, 20>>, <<80, 60, 50, 40, 30, 20>> }

\* the DCFInputs a caller may hand over: every field is optional
NoDCFOverrides ==
    [ projectionYears |-> undefined, revenueGrowth |-> undefined,
      terminalGrowth |-> undefined, wacc |-> undefined, taxRate |-> undefined,
      riskFreeRate |-> undefined, marketRiskPremium |-> undefined,
      beta |-> undefined ]

DCFOverrides ==
    { [NoDCFOverrides EXCEPT !.revenueGrowth = g, !.wacc = w, !.taxRate = t] :
        g \in {undefined} \cup { Some(a) : a \in GrowthArrays },
        w \in {undefined, Some(100)},
        t \in {undefined, Some(900)} }
    \cup
    { [NoDCFOverrides EXCEPT !.projectionYears = Some(3)],
      [NoDCFOverrides EXCEPT !.riskFreeRate = Some(30),
                             !.marketRiskPremium = Some(60),
                             !.beta = Some(1500)],
      [NoDCFOverrides EXCEPT !.taxRate = Some(300), !.beta = Some(800)],
      [NoDCFOverrides EXCEPT !.terminalGrowth = Some(200), !.wacc = Some(100)],
      [NoDCFOverrides EXCEPT !.terminalGrowth = Some(150)] }

WaccRanges == { <<80, 120>>, <<100>> }
TerminalGrowthRanges == { <<20, 30>>, <<25>> }

InitDCF ==
    /\ data \in DCFSnapshots
    /\ overrides \in DCFOverrides
    /\ inputs = DCFModel(data, overrides)
    /\ peers = <<>>
    /\ values = <<>>
    /\ calls = <<>>

Calculate ==
    /\ CanCall
    /\ LET c == calculate(data, inputs)
       IN  /\ data' = c.data
           /\ calls' = Append(calls, Call("calculate", c.result, data, inputs))
    /\ UNCHANGED <<overrides, inputs, peers, values>>

SensitivityAnalysis ==
    /\ CanCall
    /\ \E waccRange \in WaccRanges, growthRange \in TerminalGrowthRanges :
         LET s == sensitivityAnalysis(data, inputs, waccRange, growthRange)
         IN  /\ data' = s.data
             /\ inputs' = s.inputs
             /\ calls' = Append(calls, Call("sensitivityAnalysis", s.result, data, inputs))
    /\ UNCHANGED <<overrides, peers, values>>

NextDCF == Calculate \/ SensitivityAnalysis

SpecDCF == InitDCF /\ [][NextDCF]_vars

(***************************************************************************)
(* Claims about DCFModel                                                   *)
(***************************************************************************)
IsCalculate(i) == calls[i].op = "calculate"

\* C1: on one instance, calculate() after sensitivityAnalysis(...) returns the
\* result that calculate() returned before it, field by field.
C1_SensitivityRestoresState ==
    \A i \in 1..(Len(calls) - 2) :
        ( /\ IsCalculate(i)
          /\ calls[i + 1].op = "sensitivityAnalysis"
          /\ IsCalculate(i + 2) )
        => calls[i + 2].result = calls[i].result

\* C2: DCFModel.calculate() leaves the caller's CompanyData as it was: when
\* calculate() has just returned, every field of the snapshot (the revenue of
\* the last income statement in particular) has its value from before the call.
C2_CalculateLeavesSnapshot ==
    (calls # <<>> /\ IsCalculate(Len(calls))) => data = Last(calls).before

\* C3: two successive calculate() calls on one instance, nothing in between,
\* return equal results.
C3_RepeatableResults ==
    \A i \in 1..(Len(calls) - 1) :
        (IsCalculate(i) /\ IsCalculate(i + 1))
        => calls[i + 1].result = calls[i].result

\* C10: in every projection year y the revenue is the previous revenue grown
\* by revenueGrowth[y-1] when the array has at least y entries (whatever the
\* entry, 0 included) and by the last supplied rate only when it is shorter.
SpecifiedRate(revenueGrowth, year) ==
    IF year <= Len(revenueGrowth) THEN revenueGrowth[year] ELSE Last(revenueGrowth)

C10_GrowthRateByYear ==
    \A i \in 1..Len(calls) :
        IsCalculate(i) =>
            LET rows == calls[i].result.projections
                rg   == calls[i].inputsBefore.revenueGrowth
            IN  \A y \in 1..Len(rows) :
                    rows[y].revenue =
                        Mul(IF y = 1 THEN lastStatementOf(calls[i].before).revenue
                                     ELSE rows[y - 1].revenue,
                            Scale + SpecifiedRate(rg, y))

\* C7: two DCF computations over equal snapshot values and inputs that differ
\* in wacc alone (both above terminalGrowth): the larger wacc gives the
\* strictly smaller impliedSharePrice.
WaccGrid == {80, 100, 120}

PriceAt(wacc) == calculate(data, [inputs EXCEPT !.wacc = wacc]).result.impliedSharePrice

C7_WaccStrictlyDecreasesPrice ==
    \A w1 \in WaccGrid, w2 \in WaccGrid :
        (inputs.terminalGrowth < w1 /\ w1 < w2) => PriceAt(w2) < PriceAt(w1)

\* C7 as amended: the same, for computations in which every projected year's
\* free cash flow is positive, shares outstanding are positive and
\* terminalGrowth is above -100%.
AllFCFPositive ==
    LET rows == calculate(data, inputs).result.projections
    IN  \A y \in 1..Len(rows) : rows[y].fcf > 0

C7_WaccDecreasesPriceOfPositiveFCF ==
    ( /\ AllFCFPositive
      /\ data.profile.sharesOutstanding > 0
      /\ inputs.terminalGrowth > -Scale )
    => C7_WaccStrictlyDecreasesPrice

C7_Witness ==
    /\ calls # <<>>
    /\ AllFCFPositive
    /\ inputs.terminalGrowth < 80
    /\ PriceAt(120) < PriceAt(100) /\ PriceAt(100) < PriceAt(80)

\* C11: when the caller supplies no wacc, the WACC calculate() uses is
\* 0.7 * (riskFreeRate + beta * marketRiskPremium) + 0.3 * 0.04 * (1 - taxRate)
\* of the instance's effective inputs.
C11_DefaultWaccFromEffectiveInputs ==
    \A i \in 1..Len(calls) :
        (IsCalculate(i) /\ overrides.wacc = undefined)
        => /\ calls[i].inputsBefore.wacc = calculateWACC(calls[i].inputsBefore)
           /\ calls[i].result.assumptions.wacc = calculateWACC(calls[i].inputsBefore)

\* C12: calculate() returns N projection rows numbered 1..N and discounts the
\* terminal value by (1 + wacc)^N, N being the projectionYears the caller
\* supplied and 5 when none was supplied.
C12_ProjectionYearsOverride ==
    \A i \in 1..Len(calls) :
        IsCalculate(i) =>
            LET N    == Coalesce(overrides.projectionYears, 5)
                r    == calls[i].result
                rows == r.projections
            IN  /\ Len(rows) = N
                /\ \A y \in 1..Len(rows) : rows[y].year = y
                /\ r.enterpriseValue =
                       SumSeq([y \in 1..Len(rows) |-> rows[y].presentValue])
                         + Quot(r.terminalValue,
                                Pow(Scale + calls[i].inputsBefore.wacc, N))

\* C14: for positive latest revenue, shares and current price, wacc above
\* terminalGrowth and a tax rate below 1, calculate() returns a strictly
\* positive enterpriseValue, equityValue = enterpriseValue - (totalDebt - cash)
\* of the latest balance sheet, impliedSharePrice = equityValue / shares, and an
\* upside with the sign of impliedSharePrice - currentPrice.
Sign(x) == IF x > 0 THEN 1 ELSE IF x < 0 THEN -1 ELSE 0

C14_Precondition(i) ==
    /\ IsCalculate(i)
    /\ lastStatementOf(calls[i].before).revenue > 0
    /\ calls[i].before.profile.sharesOutstanding > 0
    /\ calls[i].before.stockPrice.current > 0
    /\ calls[i].inputsBefore.wacc > calls[i].inputsBefore.terminalGrowth
    /\ calls[i].inputsBefore.taxRate < Scale

C14_Values(i) ==
    LET r      == calls[i].result
        b      == lastBalanceOf(calls[i].before)
        shares == calls[i].before.profile.sharesOutstanding
    IN  /\ r.enterpriseValue > 0
        /\ r.equityValue = r.enterpriseValue - (b.totalDebt - b.cashAndEquivalents)
        /\ r.impliedSharePrice * shares <= r.equityValue
        /\ r.equityValue < (r.impliedSharePrice + 1) * shares
        /\ Sign(r.upside) = Sign(r.impliedSharePrice - r.currentPrice)

C14_PositiveEnterpriseValue ==
    \A i \in 1..Len(calls) : C14_Precondition(i) => C14_Values(i)

\* C14 as amended: the same, for computations in which every projected
\* year's free cash flow is positive and terminalGrowth is above -100%.
C14_PositiveFCF(i) ==
    /\ \A y \in 1..Len(calls[i].result.projections) :
           calls[i].result.projections[y].fcf > 0
    /\ calls[i].inputsBefore.terminalGrowth > -Scale

C14_PositiveEnterpriseValueOfPositiveFCF ==
    \A i \in 1..Len(calls) :
        (C14_Precondition(i) /\ C14_PositiveFCF(i)) => C14_Values(i)

C14_Witness ==
    /\ calls # <<>>
    /\ C14_Precondition(Len(calls))
    /\ C14_PositiveFCF(Len(calls))
    /\ lastBalanceOf(data).totalDebt > lastBalanceOf(data).cashAndEquivalents
    /\ Last(calls).result.enterpriseValue > 0
    /\ Last(calls).result.upside > 0

\* C16: when wacc <= terminalGrowth, calculate() does not silently return a
\* negative or non-finite terminal value: the call is rejected, or its result
\* carries a flag (a field beyond those of DCFValuation) that marks it.
DCFValuationFields ==
    { "assumptions", "projections", "terminalValue", "enterpriseValue",
      "netDebt", "equityValue", "sharesOutstanding", "impliedSharePrice",
      "currentPrice", "upside" }

C16_DegenerateInputIsFlagged ==
    \A i \in 1..Len(calls) :
        ( /\ IsCalculate(i)
          /\ calls[i].inputsBefore.wacc <= calls[i].inputsBefore.terminalGrowth )
        => \/ "error" \in DOMAIN calls[i]
           \/ DOMAIN calls[i].result \ DCFValuationFields # {}
           \/ calls[i].result.terminalValue >= 0

(***************************************************************************)
(* Three-statement: one ThreeStatementModel over one snapshot; the caller  *)
(* calls project(), possibly more than once.                               *)
(***************************************************************************)
ThreeStatementSnapshots ==
    { Snapshot(revenue, 1000, 300, totalDebt, cash, 100, 20) :
        revenue \in {4000, 10000}, totalDebt \in {0, 3000}, cash \in {0, 500} }

ThreeStatementOverrides ==
    { [ projectionYears |-> n, revenueGrowth |-> g, grossMargin |-> undefined,
        operatingMargin |-> m, taxRate |-> undefined ] :
        n \in {undefined, Some(1), Some(3)},
        g \in {undefined, Some(<<0, 100>>), Some(<<50>>)},
        m \in {undefined, Some(20)} }

InitThreeStatement ==
    /\ data \in ThreeStatementSnapshots
    /\ overrides \in ThreeStatementOverrides
    /\ inputs = ThreeStatementModel(overrides)
    /\ peers = <<>>
    /\ values = <<>>
    /\ calls = <<>>

Project ==
    /\ CanCall
    /\ LET p == project(data, inputs)
       IN  /\ data' = p.data
           /\ calls' = Append(calls, Call("project", p.result, data, inputs))
    /\ UNCHANGED <<overrides, inputs, peers, values>>

NextThreeStatement == Project

SpecThreeStatement == InitThreeStatement /\ [][NextThreeStatement]_vars

(***************************************************************************)
(* Claims about ThreeStatementModel                                        *)
(***************************************************************************)
\* C4: project() keeps its rolling cash accumulator to itself: when project()
\* has returned, cashAndEquivalents of the snapshot's last balance sheet has
\* its value from before the call.
C4_ProjectKeepsCashPrivate ==
    (calls # <<>> /\ Last(calls).op = "project")
    => lastBalanceOf(data).cashAndEquivalents
         = lastBalanceOf(Last(calls).before).cashAndEquivalents

\* C5: in the result of project(), year 1 begins with the snapshot's latest
\* cashAndEquivalents as it was when the call started, every later year
\* begins with the ending cash of the year before it, and every year ends
\* with its beginning cash plus its net change in cash.
C5_CashRollsForward ==
    \A i \in 1..Len(calls) :
        calls[i].op = "project" =>
            LET rows == calls[i].result.cashFlowStatements
            IN  /\ rows[1].beginningCash
                     = lastBalanceOf(calls[i].before).cashAndEquivalents
                /\ \A y \in 1..(Len(rows) - 1) :
                       rows[y + 1].beginningCash = rows[y].endingCash
                /\ \A y \in 1..Len(rows) :
                       rows[y].endingCash
                         = rows[y].beginningCash + rows[y].netChangeInCash

C5_Witness ==
    /\ calls # <<>>
    /\ Last(calls).op = "project"
    /\ LET rows == Last(calls).result.cashFlowStatements
       IN  /\ Len(rows) = 5
           /\ \A y \in 1..5 : rows[y].netChangeInCash # 0
           /\ rows[5].beginningCash = rows[4].endingCash
           /\ rows[5].beginningCash # rows[1].beginningCash

(***************************************************************************)
(* LBO: one LBOModel over one snapshot; the caller calls calculate().      *)
(***************************************************************************)
LBOSnapshots ==
    { Snapshot(revenue, 1000, 300, totalDebt, cash, 100, 20) :
        revenue \in {0, 10000}, totalDebt \in {0, 3000}, cash \in {500, 6000} }

LBOOverrides ==
    { [ purchasePrice |-> undefined, premium |-> pr, debtRatio |-> dr,
        equityRatio |-> er, interestRate |-> undefined,
        exitMultiple |-> undefined, holdingPeriod |-> hp,
        revenueGrowth |-> g, ebitdaMargin |-> m ] :
        pr \in {undefined, Some(500)},
        dr \in {undefined, Some(0), Some(900)},
        er \in {undefined, Some(100)},
        hp \in {undefined, Some(3)},
        g \in {undefined, Some(-100)},
        m \in {undefined, Some(50), Some(600)} }

InitLBO ==
    /\ data \in LBOSnapshots
    /\ overrides \in LBOOverrides
    /\ inputs = LBOModel(data, overrides)
    /\ peers = <<>>
    /\ values = <<>>
    /\ calls = <<>>

LBOCalculate ==
    /\ CanCall
    /\ calls' = Append(calls, Call("calculate", lboCalculate(data, inputs),
                                   data, inputs))
    /\ UNCHANGED <<data, overrides, inputs, peers, values>>

NextLBO == LBOCalculate

SpecLBO == InitLBO /\ [][NextLBO]_vars

(***************************************************************************)
(* Claims about LBOModel                                                   *)
(***************************************************************************)
\* C6: in LBOModel.calculate(), whatever the inputs and the yearly free cash
\* flows (positive, zero or negative), endingDebt of every projected year is
\* >= 0, and once endingDebt is 0 no later year has a negative endingDebt.
C6_DebtNeverNegative ==
    \A i \in 1..Len(calls) :
        LET rows == calls[i].result.projections
        IN  /\ \A y \in 1..Len(rows) : rows[y].endingDebt >= 0
            /\ \A y \in 1..Len(rows) :
                   rows[y].endingDebt = 0
                   => \A z \in (y + 1)..Len(rows) : rows[z].endingDebt >= 0

C6_Witness ==
    /\ calls # <<>>
    /\ LET rows == Last(calls).result.projections
       IN  \E y \in 1..(Len(rows) - 2) :
               /\ rows[y].endingDebt > 0
               /\ rows[y + 1].endingDebt = 0
               /\ rows[y + 2].freeCashFlow > 0
               /\ rows[y + 2].endingDebt = 0

\* C18: in the cash sweep each year's debtRepayment is min(freeCashFlow, debt
\* outstanding at the start of the year) and is never negative, so endingDebt
\* never rises from one year to the next, negative free cash flow included.
DebtAtStart(r, y) == IF y = 1 THEN r.debt.totalDebt ELSE r.projections[y - 1].endingDebt

C18_SweepOnlyReducesDebt ==
    \A i \in 1..Len(calls) :
        LET r == calls[i].result
        IN  \A y \in 1..Len(r.projections) :
                /\ r.projections[y].debtRepayment
                     = Min(r.projections[y].freeCashFlow, DebtAtStart(r, y))
                /\ r.projections[y].debtRepayment >= 0
                /\ r.projections[y].endingDebt <= DebtAtStart(r, y)

\* C19: for every configured capital structure, one overridden ratio
\* included, debtFinancing + equityContribution is the entry enterpriseValue
\* and seniorDebt + mezzanineDebt is debtFinancing, split 70/30 (each equality
\* up to one currency unit of rounding per term).
Near(a, b, tolerance) == a - b <= tolerance /\ b - a <= tolerance

C19_CapitalStructureAddsUp ==
    \A i \in 1..Len(calls) :
        LET e == calls[i].result.entry
            d == calls[i].result.debt
        IN  /\ Near(e.debtFinancing + e.equityContribution, e.enterpriseValue, 2)
            /\ Near(d.seniorDebt + d.mezzanineDebt, e.debtFinancing, 2)
            /\ Near(10 * d.seniorDebt, 7 * e.debtFinancing, 10)
            /\ Near(10 * d.mezzanineDebt, 3 * e.debtFinancing, 10)

\* C20: the premium enters the entry valuation: an instance over the same
\* snapshot that differs only in a higher premium (no purchasePrice supplied)
\* has a different entry purchase price and a higher entry enterpriseValue.
HigherPremiums == {600, 900}

EntryAtPremium(d, o, premium) ==
    calculateEntry(d, LBOModel(d, [o EXCEPT !.premium = Some(premium)]))

C20_PremiumRaisesEntryValue ==
    \A i \in 1..Len(calls) :
        overrides.purchasePrice = undefined =>
            \A premium \in HigherPremiums :
                LET mine  == calls[i].result.entry
                    other == EntryAtPremium(calls[i].before, overrides, premium)
                IN  mine.premium < other.premium
                    => /\ other.purchasePrice # mine.purchasePrice
                       /\ other.enterpriseValue > mine.enterpriseValue

(***************************************************************************)
(* Percentile: a caller hands an array to calculatePercentile of either    *)
(* model; calls holds that one call.                                       *)
(***************************************************************************)
MaxValues == 4         \* length of the array handed to calculatePercentile

SampleValues == {10, 20, 30, 40}
Percentiles == {lowPercentile, medianPercentile, highPercentile}

PercentileCall(model, percentile, result, vals) ==
    [ op |-> "calculatePercentile", model |-> model, percentile |-> percentile,
      result |-> result, before |-> vals ]

InitPercentile ==
    /\ values \in UNION { [1..n -> SampleValues] : n \in 0..MaxValues }
    /\ data = Snapshot(10000, 2500, 1200, 3500, 500, 100, 20)
    /\ overrides = <<>>
    /\ inputs = <<>>
    /\ peers = <<>>
    /\ calls = <<>>

CompsCalculatePercentile ==
    /\ calls = <<>>
    /\ \E percentile \in Percentiles :
         calls' = << PercentileCall("comps", percentile,
                                    calculatePercentile(values, percentile), values) >>
    /\ values' = ArrayAfterPercentile(values)
    /\ UNCHANGED <<data, overrides, inputs, peers>>

PrecedentCalculatePercentile ==
    /\ calls = <<>>
    /\ \E percentile \in Percentiles :
         calls' = << PercentileCall("precedent", percentile,
                                    precedentCalculatePercentile(values, percentile),
                                    values) >>
    /\ values' = ArrayAfterPercentile(values)
    /\ UNCHANGED <<data, overrides, inputs, peers>>

NextPercentile == CompsCalculatePercentile \/ PrecedentCalculatePercentile

SpecPercentile == InitPercentile /\ [][NextPercentile]_vars

\* C8: for a non-empty array and p in {25, 50, 75}, calculatePercentile of
\* either model returns the element at index floor((p/100) * (n-1)) of the
\* ascending sort of the array: an element of the array with at most that
\* many elements below it and more than that many not above it; the
\* caller's array is not reordered; for [10,20,30,40] the 25th percentile is
\* 10 and the median is 20.
C8_NearestRankPercentile ==
    \A i \in 1..Len(calls) :
        LET v == calls[i].before
            n == Len(v)
            k == (calls[i].percentile * (n - 1)) \div 100
            r == calls[i].result
        IN  n > 0 =>
              /\ r # undefined
              /\ \E j \in 1..n : v[j] = r[1]
              /\ Cardinality({j \in 1..n : v[j] < r[1]}) <= k
              /\ Cardinality({j \in 1..n : v[j] <= r[1]}) >= k + 1
              /\ values = v
              /\ (v = <<10, 20, 30, 40>> /\ calls[i].percentile = 25) => r = Some(10)
              /\ (v = <<10, 20, 30, 40>> /\ calls[i].percentile = 50) => r = Some(20)

C8_Witness ==
    /\ calls # <<>>
    /\ calls[1].model = "precedent"
    /\ calls[1].before = <<40, 20, 10, 30>>
    /\ calls[1].percentile = 75
    /\ calls[1].result = Some(30)
    /\ values = <<40, 20, 10, 30>>

(***************************************************************************)
(* Comps: one CompsModel over one snapshot, its peers generated at         *)
(* construction; the caller calls analyze().                               *)
(***************************************************************************)
\* the Math.random() draws of one peer, in thousandths
RandomDraws == { <<0, 0, 0, 0, 0, 0>>, <<999, 400, 999, 100, 999, 700>> }

CompsSnapshots ==
    { Snapshot(revenue, ebitda, netIncome, 3500, 500, 100, 20) :
        revenue \in {0, 10000}, ebitda \in {5, 2500}, netIncome \in {-300, 0, 150} }

InitComps ==
    /\ data \in CompsSnapshots
    /\ \E draws \in [1..peerCount -> RandomDraws] : peers = generatePeers(data, draws)
    /\ overrides = <<>>
    /\ inputs = <<>>
    /\ values = <<>>
    /\ calls = <<>>

Analyze ==
    /\ CanCall
    /\ calls' = Append(calls, Call("analyze", analyze(data, peers), data, inputs))
    /\ UNCHANGED <<data, overrides, inputs, peers, values>>

NextComps == Analyze

SpecComps == InitComps /\ [][NextComps]_vars

\* C9: analyze() computes each multiple's statistics over the 8 generated
\* peers plus the target, keeping only the multiples strictly inside
\* EV/Revenue in (0,50), EV/EBITDA in (0,50), P/E in (0,100): low, median and
\* high are the nearest-rank 25th, 50th and 75th percentiles and mean the
\* average of the kept multiples alone, so a company whose multiple is out of
\* bounds contributes to none of them, while result.peers still holds all 8
\* generated peers.
MultipleKinds == {"evRevenue", "evEbitda", "pe"}
BoundOf(kind) == IF kind = "pe" THEN 100 * Scale ELSE 50 * Scale

\* rank test: r is the element at index k (from 0) of the ascending sort of
\* the multiples m[j], j in kept
IsRank(r, k, m, kept) ==
    /\ \E j \in kept : m[j] = r
    /\ Cardinality({j \in kept : m[j] < r}) <= k
    /\ Cardinality({j \in kept : m[j] <= r}) >= k + 1

C9_StatisticsOverInBoundMultiples ==
    \A i \in 1..Len(calls) :
        LET res == calls[i].result
            all == res.peers \o <<getTargetMetrics(calls[i].before)>>
        IN  /\ res.peers = peers
            /\ Len(res.peers) = 8
            /\ \A kind \in MultipleKinds :
                  LET usable == {j \in 1..Len(all) : Denominator(all[j], kind) # 0}
                      m == [j \in usable |->
                              Div(Numerator(all[j], kind), Denominator(all[j], kind))]
                      kept == {j \in usable : 0 < m[j] /\ m[j] < BoundOf(kind)}
                      n == Cardinality(kept)
                      st == res.multiples[kind]
                  IN  n > 0 =>
                        /\ st.low # undefined /\ IsRank(st.low[1], (25 * (n - 1)) \div 100, m, kept)
                        /\ st.median # undefined /\ IsRank(st.median[1], (50 * (n - 1)) \div 100, m, kept)
                        /\ st.high # undefined /\ IsRank(st.high[1], (75 * (n - 1)) \div 100, m, kept)
                        /\ st.mean = Some(SumSeq([j \in 1..Len(all) |->
                                            IF j \in kept THEN m[j] ELSE 0]) \div n)

\* the target's EV/EBITDA is 1000 and the statistics are those of the 8 peers
C9_Witness ==
    /\ calls # <<>>
    /\ LET t == getTargetMetrics(Last(calls).before)
           st == Last(calls).result.multiples.evEbitda
       IN  /\ t.ebitda # 0
           /\ Div(t.enterpriseValue, t.ebitda) = 1000 * Scale
           /\ Len(Last(calls).result.peers) = 8
           /\ st.high # undefined
           /\ st.high[1] < 50 * Scale
           /\ st.mean # undefined
           /\ st.mean[1] < 50 * Scale

\* C15: when the out-of-range filter leaves a multiple's set empty, the
\* statistics computation fails with an explicit EmptyDataset error; it does not
\* run the percentile and the mean on the empty array and return undefined/NaN.
KeptMultiples(all, kind) ==
    { j \in 1..Len(all) :
        /\ Denominator(all[j], kind) # 0
        /\ 0 < Div(Numerator(all[j], kind), Denominator(all[j], kind))
        /\ Div(Numerator(all[j], kind), Denominator(all[j], kind)) < BoundOf(kind) }

C15_EmptySetFailsWithEmptyDataset ==
    \A i \in 1..Len(calls) :
        \A kind \in MultipleKinds :
            KeptMultiples(calls[i].result.peers
                            \o <<getTargetMetrics(calls[i].before)>>, kind) = {}
            => /\ "error" \in DOMAIN calls[i]
               /\ calls[i].error = "EmptyDataset"

(***************************************************************************)
(* M&A: one MAModel over an acquirer and a target snapshot (data holds the *)
(* pair); the caller calls analyze().                                      *)
(***************************************************************************)
\* a CompanyData with the income-statement fields MAModel reads
MACompany(symbol, operatingIncome, netIncome, shares, price) ==
    [ profile |-> [ symbol |-> symbol, sharesOutstanding |-> shares ],
      incomeStatements |->
        << [ revenue |-> 3000, ebitda |-> 900, operatingIncome |-> 700,
             netIncome |-> netIncome - 20 ],
           [ revenue |-> 4000, ebitda |-> operatingIncome + 200,
             operatingIncome |-> operatingIncome, netIncome |-> netIncome ] >>,
      balanceSheets |->
        << [ totalAssets |-> 9000, totalDebt |-> 2000, cashAndEquivalents |-> 700 ],
           [ totalAssets |-> 10000, totalDebt |-> 3000, cashAndEquivalents |-> 500 ] >>,
      stockPrice |-> [ current |-> price ] ]

MAAcquirers ==
    { MACompany("ACQ", 800, netIncome, 100, price) :
        netIncome \in {300, 474}, price \in {20, 60} }

MATargets == { MACompany("TGT", 400, netIncome, 50, 20) : netIncome \in {40, 100} }

MAOverrides ==
    { [ targetPrice |-> undefined, premium |-> p, cashPercent |-> c,
        stockPercent |-> s, debtPercent |-> d, interestRate |-> undefined,
        synergies |-> y ] :
        p \in {undefined, Some(0), Some(1000)},
        c \in {undefined, Some(0)},
        s \in {undefined, Some(1000)},
        d \in {undefined, Some(0)},
        y \in {undefined, Some([cost |-> 0, revenue |-> 0])} }

InitMA ==
    /\ data \in [acquirer : MAAcquirers, target : MATargets]
    /\ overrides \in MAOverrides
    /\ inputs = MAModel(data.target, overrides)
    /\ peers = <<>>
    /\ values = <<>>
    /\ calls = <<>>

MAAnalyze ==
    /\ Len(calls) < MaxCalls
    /\ calls' = Append(calls, Call("analyze",
                                   maAnalyze(data.acquirer, data.target, inputs),
                                   data, inputs))
    /\ UNCHANGED <<data, overrides, inputs, peers, values>>

NextMA == MAAnalyze

SpecMA == InitMA /\ [][NextMA]_vars

(***************************************************************************)
(* Claims about MAModel                                                    *)
(***************************************************************************)
\* the caller asked for no synergies and an all-stock deal
AllStockNoSynergies ==
    /\ overrides.synergies = Some([cost |-> 0, revenue |-> 0])
    /\ overrides.stockPercent = Some(Scale)
    /\ overrides.cashPercent = Some(0)
    /\ overrides.debtPercent = Some(0)

\* the price paid per unit of target earnings exceeds the acquirer's P/E:
\* consideration / targetNetIncome > acquirerPrice / acquirerEPS, cross-multiplied
\* (all four quantities are positive)
PaysAboveAcquirerPE(r, d) ==
    r.deal.totalConsideration * lastStatementOf(d.acquirer).netIncome
      > d.acquirer.stockPrice.current * d.acquirer.profile.sharesOutstanding
          * lastStatementOf(d.target).netIncome

\* C13: in analyze(), with synergies 0 and a 100% stock-funded deal at a
\* premium that makes the price paid per unit of target earnings exceed the
\* acquirer's own P/E, accretionDilution.isAccretive is false.
C13_DilutiveStockDealNotAccretive ==
    \A i \in 1..Len(calls) :
        (AllStockNoSynergies /\ PaysAboveAcquirerPE(calls[i].result, calls[i].before))
        => calls[i].result.accretionDilution.isAccretive = FALSE

(***************************************************************************)
(* Short histories: a caller constructs a model over a snapshot whose      *)
(* series may have no period and calls it at once, with no inputs.  Reading *)
(* a property of series[series.length - 1] of an empty series throws a     *)
(* TypeError; the element itself may be read.                              *)
(***************************************************************************)
MaxPeriods == 2

TypeError == "TypeError"

\* a call that threw: no result
Thrown(op, error, d) == [op |-> op, error |-> error, before |-> d]

\* the newest n periods of a series
LastPeriods(series, n) ==
    SubSeq(series, Max(1, Len(series) - n + 1), Len(series))

HistorySnapshots ==
    { [ profile |-> s.profile,
        incomeStatements |-> LastPeriods(s.incomeStatements, ni),
        cashFlowStatements |->
            LastPeriods(<< [ operatingCashFlow |-> 500, capitalExpenditure |-> -200 ],
                           [ operatingCashFlow |-> 600, capitalExpenditure |-> -250 ] >>,
                        nc),
        balanceSheets |-> LastPeriods(s.balanceSheets, nb),
        stockPrice |-> s.stockPrice ] :
        s \in { Snapshot(revenue, 1000, 300, 3000, 500, 100, 20) :
                  revenue \in {4000, 10000} },
        ni \in 0..MaxPeriods, nc \in 0..MaxPeriods, nb \in 0..MaxPeriods }

NoLBOOverrides ==
    [ purchasePrice |-> undefined, premium |-> undefined, debtRatio |-> undefined,
      equityRatio |-> undefined, interestRate |-> undefined,
      exitMultiple |-> undefined, holdingPeriod |-> undefined,
      revenueGrowth |-> undefined, ebitdaMargin |-> undefined ]

InitHistory ==
    /\ data \in HistorySnapshots
    /\ overrides = <<>>
    /\ inputs = <<>>
    /\ peers = <<>>
    /\ values = <<>>
    /\ calls = <<>>

CanCallOnHistory ==
    /\ Len(calls) < MaxCalls
    /\ data.incomeStatements # <<>> => lastStatementOf(data).revenue <= MaxRevenue

\* new DCFModel(data).calculate(): the constructor reads the last income
\* statement with ?. and never throws; calculateProjections throws on
\* lastStatement.revenue when there is no income statement; with income
\* statements and no balance sheet the projections run (and write the
\* snapshot) before calculateEquityValue throws on lastBalance.totalDebt; the
\* last cash-flow statement is fetched and never used
DCFCalculateOnHistory ==
    /\ CanCallOnHistory
    /\ IF data.incomeStatements = <<>>
       THEN /\ calls' = Append(calls, Thrown("DCFModel.calculate", TypeError, data))
            /\ data' = data
       ELSE IF data.balanceSheets = <<>>
       THEN /\ calls' = Append(calls, Thrown("DCFModel.calculate", TypeError, data))
            /\ data' = calculateProjections(data, DCFModel(data, NoDCFOverrides)).data
       ELSE /\ calls' = Append(calls,
                          Call("DCFModel.calculate",
                               calculate(data, DCFModel(data, NoDCFOverrides)).result,
                               data, DCFModel(data, NoDCFOverrides)))
            /\ data' = calculate(data, DCFModel(data, NoDCFOverrides)).data
    /\ UNCHANGED <<overrides, inputs, peers, values>>

\* new LBOModel(data).calculate(): the constructor calls getNetDebt(), which
\* throws on lastBalance.totalDebt when there is no balance sheet;
\* calculateProjections throws on lastIncome.revenue when there is no income
\* statement
LBOCalculateOnHistory ==
    /\ CanCallOnHistory
    /\ IF data.balanceSheets = <<>>
       THEN calls' = Append(calls, Thrown("new LBOModel", TypeError, data))
       ELSE IF data.incomeStatements = <<>>
       THEN calls' = Append(calls, Thrown("LBOModel.calculate", TypeError, data))
       ELSE calls' = Append(calls,
                        Call("LBOModel.calculate",
                             lboCalculate(data, LBOModel(data, NoLBOOverrides)),
                             data, LBOModel(data, NoLBOOverrides)))
    /\ UNCHANGED <<data, overrides, inputs, peers, values>>

NextHistory == DCFCalculateOnHistory \/ LBOCalculateOnHistory

SpecHistory == InitHistory /\ [][NextHistory]_vars

\* C17: when a required series of the snapshot (income statements, cash-flow
\* statements or balance sheets) has no period, a model call fails with an
\* explicit InsufficientData failure.
HasEmptySeries(d) ==
    \/ d.incomeStatements = <<>>
    \/ d.cashFlowStatements = <<>>
    \/ d.balanceSheets = <<>>

C17_EmptySeriesFailsWithInsufficientData ==
    \A i \in 1..Len(calls) :
        HasEmptySeries(calls[i].before)
        => /\ "error" \in DOMAIN calls[i]
           /\ calls[i].error = "InsufficientData"

(***************************************************************************)
(* CreditModel.  A ratio of the source may be non-finite (a division by    *)
(* 0): a double is held as a record of its class ("finite", NaN, Infinity, *)
(* MinusInfinity) and, when finite, its value in thousandths.              *)
(***************************************************************************)
creditTargetLeverage == 3000
creditMinInterestCoverage == 3000
creditCovenantCushion == 200
creditInterestRate == 50
creditEbitdaGrowth == 1080
creditProjectionYears == 5
investmentCeiling == 2000
speculativeCeiling == 4000
highYieldHaircut == 800

DoubleOf(v) == [class |-> "finite", value |-> v]
NonFinite(class) == [class |-> class, value |-> 0]

\* x / y of two numbers
Ratio(x, y) ==
    IF y # 0 THEN DoubleOf(Div(x, y))
    ELSE IF x > 0 THEN NonFinite(Infinity)
    ELSE IF x < 0 THEN NonFinite(MinusInfinity)
    ELSE NonFinite(NaN)

\* r < bound, r <= bound, r >= bound for a double r and a finite bound; every
\* comparison with NaN is false
IsLess(r, bound) ==
    \/ r.class = "finite" /\ r.value < bound
    \/ r.class = MinusInfinity
IsLessEq(r, bound) ==
    \/ r.class = "finite" /\ r.value <= bound
    \/ r.class = MinusInfinity
IsGreaterEq(r, bound) ==
    \/ r.class = "finite" /\ r.value >= bound
    \/ r.class = Infinity

\* bound - r and r - bound
BoundMinus(bound, r) ==
    IF r.class = "finite" THEN DoubleOf(bound - r.value)
    ELSE IF r.class = Infinity THEN NonFinite(MinusInfinity)
    ELSE IF r.class = MinusInfinity THEN NonFinite(Infinity)
    ELSE r
MinusBound(r, bound) ==
    IF r.class = "finite" THEN DoubleOf(r.value - bound) ELSE r

\* constructor: the defaults, then the supplied fields spread over them
CreditModel(o) ==
    [ targetLeverage      |-> Coalesce(o.targetLeverage, creditTargetLeverage),
      minInterestCoverage |-> Coalesce(o.minInterestCoverage, creditMinInterestCoverage),
      covenantCushion     |-> Coalesce(o.covenantCushion, creditCovenantCushion) ]

\* the row calculateHistorical builds for index i (from 1) of the series
HistoricalRow(d, i) ==
    LET income == d.incomeStatements[i]
        balance == d.balanceSheets[i]
        interestExpense == Mul(balance.totalDebt, creditInterestRate)
    IN  [ year |-> balance.year,
          ebitda |-> income.ebitda,
          totalDebt |-> balance.totalDebt,
          netDebt |-> balance.totalDebt - balance.cashAndEquivalents,
          interestExpense |-> interestExpense,
          leverageRatio |-> Ratio(balance.totalDebt, income.ebitda),
          netLeverage |-> Ratio(balance.totalDebt - balance.cashAndEquivalents,
                                income.ebitda),
          interestCoverage |-> Ratio(income.ebitda, interestExpense) ]

Min3(a, b, c) == Min(a, Min(b, c))

\* calculateHistorical(): one row per index below the shortest series'
\* length, then reversed
calculateHistorical(d) ==
    LET years == Min3(Len(d.incomeStatements), Len(d.balanceSheets),
                      Len(d.cashFlowStatements))
    IN  [k \in 1..years |-> HistoricalRow(d, years + 1 - k)]

\* projectFuture(): year is counted from the current calendar year
projectFuture(d) ==
    [i \in 1..creditProjectionYears |->
        LET ebitda == Mul(lastStatementOf(d).ebitda, Pow(creditEbitdaGrowth, i))
            debt == lastBalanceOf(d).totalDebt
            interestExpense == Mul(debt, creditInterestRate)
        IN  [ year |-> i, ebitda |-> ebitda, totalDebt |-> debt,
              interestExpense |-> interestExpense,
              leverageRatio |-> Ratio(debt, ebitda),
              interestCoverage |-> Ratio(ebitda, interestExpense) ]]

calculateDebtCapacity(d, inp) ==
    LET currentDebt == lastBalanceOf(d).totalDebt
        maxDebt == Mul(lastStatementOf(d).ebitda, inp.targetLeverage)
    IN  [ currentDebt |-> currentDebt, maxDebt |-> maxDebt,
          headroom |-> maxDebt - currentDebt,
          additionalBorrowing |-> Max(0, maxDebt - currentDebt) ]

testCovenants(historical, inp) ==
    LET current == historical[1]
        leverageLimit == Mul(inp.targetLeverage, Scale + inp.covenantCushion)
        coverageFloor == Mul(inp.minInterestCoverage, Scale - inp.covenantCushion)
    IN  [ leverageTest |->
            [ covenant |-> leverageLimit, current |-> current.leverageRatio,
              cushion |-> BoundMinus(leverageLimit, current.leverageRatio),
              status |-> IF IsLessEq(current.leverageRatio, leverageLimit)
                         THEN "pass" ELSE "fail" ],
          interestCoverageTest |->
            [ covenant |-> coverageFloor, current |-> current.interestCoverage,
              cushion |-> MinusBound(current.interestCoverage, coverageFloor),
              status |-> IF IsGreaterEq(current.interestCoverage, coverageFloor)
                         THEN "pass" ELSE "fail" ] ]

\* mutant of makeRecommendation's rating: the boundaries fall in the
\* lower-risk bracket
RatingOfBoundaryBelow(leverageRatio) ==
    IF IsLessEq(leverageRatio, investmentCeiling) THEN "investment"
    ELSE IF IsLessEq(leverageRatio, speculativeCeiling) THEN "speculative"
    ELSE "high-yield"

\* the if / else-if / else ladder of makeRecommendation
RatingOf(leverageRatio) ==
    IF IsLess(leverageRatio, investmentCeiling) THEN "investment"
    ELSE IF IsLess(leverageRatio, speculativeCeiling) THEN "speculative"
    ELSE "high-yield"

makeRecommendation(d, inp) ==
    LET rating == RatingOf(calculateHistorical(d)[1].leverageRatio)
        maxDebt == calculateDebtCapacity(d, inp).maxDebt
    IN  [ rating |-> rating,
          maxDebtCapacity |-> IF rating = "high-yield"
                              THEN Mul(maxDebt, highYieldHaircut) ELSE maxDebt,
          suggestedStructure |->
              IF rating = "investment"
              THEN "50% Revolver + 30% Term Loan A + 20% Senior Notes"
              ELSE IF rating = "speculative"
              THEN "40% Term Loan B + 40% Senior Notes + 20% Mezzanine"
              ELSE "60% Senior Secured + 40% High Yield Bonds" ]

\* the two fixed tables of analyze(): rates in thousandths, amounts in millions
getPricingGrid ==
    << [leverage |-> "< 1.0x", spread |-> "L + 150-175bps", allInRate |-> 55],
       [leverage |-> "1.0x - 2.0x", spread |-> "L + 175-200bps", allInRate |-> 60],
       [leverage |-> "2.0x - 3.0x", spread |-> "L + 200-250bps", allInRate |-> 65],
       [leverage |-> "3.0x - 4.0x", spread |-> "L + 250-300bps", allInRate |-> 75],
       [leverage |-> "> 4.0x", spread |-> "L + 350-450bps", allInRate |-> 90] >>

getRefinancingSchedule ==
    << [maturity |-> "2025-06", amount |-> 500, type |-> "Revolver"],
       [maturity |-> "2026-12", amount |-> 1000, type |-> "Term Loan A"],
       [maturity |-> "2027-06", amount |-> 1500, type |-> "Term Loan B"],
       [maturity |-> "2028-12", amount |-> 750, type |-> "Senior Notes"] >>

creditAnalyze(d, inp) ==
    [ historical |-> calculateHistorical(d),
      projections |-> projectFuture(d),
      debtCapacity |-> calculateDebtCapacity(d, inp),
      covenants |-> testCovenants(calculateHistorical(d), inp),
      pricingGrid |-> getPricingGrid,
      refinancing |-> getRefinancingSchedule,
      recommendation |-> makeRecommendation(d, inp) ]

(***************************************************************************)
(* Credit: one CreditModel over one snapshot; the caller calls analyze().  *)
(* The three series of a snapshot need not cover the same number of        *)
(* periods.                                                                *)
(***************************************************************************)
\* the three periods a credit snapshot is cut from, oldest first; the newest
\* has EBITDA ebitda and debt totalDebt
CreditIncome(ebitda) ==
    << [ revenue |-> 2000, ebitda |-> 500, netIncome |-> 100 ],
       [ revenue |-> 3000, ebitda |-> 1000, netIncome |-> 200 ],
       [ revenue |-> 4000, ebitda |-> ebitda, netIncome |-> 300 ] >>

CreditBalances(totalDebt) ==
    << [ year |-> 2021, totalAssets |-> 8000, totalDebt |-> 3000,
         cashAndEquivalents |-> 400 ],
       [ year |-> 2022, totalAssets |-> 9000, totalDebt |-> 3000,
         cashAndEquivalents |-> 450 ],
       [ year |-> 2023, totalAssets |-> 10000, totalDebt |-> totalDebt,
         cashAndEquivalents |-> 500 ] >>

CreditCashFlows ==
    << [ operatingCashFlow |-> 400, capitalExpenditure |-> -150 ],
       [ operatingCashFlow |-> 500, capitalExpenditure |-> -200 ],
       [ operatingCashFlow |-> 600, capitalExpenditure |-> -250 ] >>

CreditSnapshots ==
    { [ profile |-> [ symbol |-> "TGT", sharesOutstanding |-> 100 ],
        incomeStatements |-> LastPeriods(CreditIncome(ebitda), ni),
        balanceSheets |-> LastPeriods(CreditBalances(totalDebt), nb),
        cashFlowStatements |-> LastPeriods(CreditCashFlows, nc),
        stockPrice |-> [ current |-> 20 ] ] :
        ebitda \in {-500, 0, 1000},
        totalDebt \in {0, 1999, 2000, 3999, 4000},
        ni \in {1, 2, 3}, nb \in {1, 2, 3}, nc \in {1, 2, 3} }

CreditOverrides ==
    { [ targetLeverage |-> t, minInterestCoverage |-> undefined,
        covenantCushion |-> undefined ] : t \in {undefined, Some(2500)} }

InitCredit ==
    /\ data \in CreditSnapshots
    /\ overrides \in CreditOverrides
    /\ inputs = CreditModel(overrides)
    /\ peers = <<>>
    /\ values = <<>>
    /\ calls = <<>>

CreditAnalyze ==
    /\ Len(calls) < MaxCalls
    /\ calls' = Append(calls, Call("analyze", creditAnalyze(data, inputs),
                                   data, inputs))
    /\ UNCHANGED <<data, overrides, inputs, peers, values>>

NextCredit == CreditAnalyze

SpecCredit == InitCredit /\ [][NextCredit]_vars

(***************************************************************************)
(* Claims about CreditModel                                                *)
(***************************************************************************)
\* the rating the ladder gives a leverage of debt / ebitda, ebitda # 0:
\* compared without dividing
LadderRating(debt, ebitda) ==
    IF ebitda > 0
    THEN IF debt < 2 * ebitda THEN "investment"
         ELSE IF debt < 4 * ebitda THEN "speculative" ELSE "high-yield"
    ELSE IF debt > 2 * ebitda THEN "investment"
         ELSE IF debt > 4 * ebitda THEN "speculative" ELSE "high-yield"

\* C21: the rating is 'investment' when L < 2.0, 'speculative' when
\* 2.0 <= L < 4.0 and 'high-yield' when L >= 4.0, L being totalDebt / EBITDA of
\* the newest (last) period of the snapshot's series.
C21_RatingOfNewestLeverage ==
    \A i \in 1..Len(calls) :
        lastStatementOf(calls[i].before).ebitda # 0
        => calls[i].result.recommendation.rating
             = LadderRating(lastBalanceOf(calls[i].before).totalDebt,
                            lastStatementOf(calls[i].before).ebitda)

\* the ladder of C21 on its own: the same, for snapshots whose three series
\* cover the same number of periods.
SameLengthSeries(d) ==
    /\ Len(d.incomeStatements) = Len(d.balanceSheets)
    /\ Len(d.balanceSheets) = Len(d.cashFlowStatements)

C21_RatingOfNewestLeverageOfAlignedSeries ==
    \A i \in 1..Len(calls) :
        ( /\ SameLengthSeries(calls[i].before)
          /\ lastStatementOf(calls[i].before).ebitda # 0 )
        => calls[i].result.recommendation.rating
             = LadderRating(lastBalanceOf(calls[i].before).totalDebt,
                            lastStatementOf(calls[i].before).ebitda)

\* a boundary leverage of exactly 2.0 rated 'speculative'
C21_Witness ==
    /\ calls # <<>>
    /\ SameLengthSeries(data)
    /\ Len(data.incomeStatements) = 3
    /\ lastStatementOf(data).ebitda = 1000
    /\ lastBalanceOf(data).totalDebt = 2000
    /\ Last(calls).result.recommendation.rating = "speculative"

(***************************************************************************)
(* OperatingModel (unit economics).  Customers are whole numbers, money is *)
(* in whole units, monthlyGrowth, churnRate and grossMargin are rates.     *)
(***************************************************************************)
operatingDefaultRevenue == 100000000
revenuePerCustomer == 1000
operatingProjectionMonths == 36
operatingMonthlyGrowth == 50
operatingCac == 100
operatingArpu == 100
operatingGrossMargin == 750
operatingChurnRate == 20
operatingLtvMonths == 24
opexShareOfArpu == 300
fixedCosts == 50000
operatingAfterTax == 790
monthsPerQuarter == 3
monthsPerYear == 12
conservativeGrowthFactor == 500
conservativeChurnFactor == 2000
optimisticGrowthFactor == 2000
optimisticChurnFactor == 500

\* Math.ceil(n / k) for whole n and k > 0
CeilDiv(n, k) == -((-n) \div k)

\* constructor: the defaults, then the supplied fields spread over them
OperatingModel(d, o) ==
    LET lastRevenue ==
            IF d.incomeStatements = <<>> \/ lastStatementOf(d).revenue = 0
            THEN operatingDefaultRevenue
            ELSE lastStatementOf(d).revenue
        estimatedCustomers == lastRevenue \div revenuePerCustomer
    IN [ projectionMonths  |-> Coalesce(o.projectionMonths, operatingProjectionMonths),
         startingCustomers |-> Coalesce(o.startingCustomers,
                                        OrElse(o.startingCustomers, estimatedCustomers)),
         monthlyGrowth     |-> Coalesce(o.monthlyGrowth, operatingMonthlyGrowth),
         cac               |-> Coalesce(o.cac, OrElse(o.cac, operatingCac)),
         arpu              |-> Coalesce(o.arpu, OrElse(o.arpu, operatingArpu)),
         grossMargin       |-> Coalesce(o.grossMargin, operatingGrossMargin),
         churnRate         |-> Coalesce(o.churnRate, operatingChurnRate),
         ltvMonths         |-> Coalesce(o.ltvMonths, operatingLtvMonths) ]

\* Math.ceil of a double held as a rate
CeilOf(r) ==
    IF r.class = "finite" THEN DoubleOf(CeilDiv(r.value, Scale)) ELSE r

calculateUnitEconomics(inp) ==
    LET avgLifetimeMonths ==
            IF inp.churnRate > 0 THEN Div(Scale, inp.churnRate)
            ELSE inp.ltvMonths * Scale
        ltv == Mul(Mul(inp.arpu, inp.grossMargin),
                   Min(avgLifetimeMonths, inp.ltvMonths * Scale))
        paybackPeriod == Ratio(inp.cac, Mul(inp.arpu, inp.grossMargin))
    IN [ cac |-> inp.cac, arpu |-> inp.arpu, grossMargin |-> inp.grossMargin,
         churnRate |-> inp.churnRate, ltv |-> ltv,
         ltvCacRatio |-> Ratio(ltv, inp.cac),
         paybackPeriod |-> paybackPeriod,
         monthsToRecover |-> CeilOf(paybackPeriod) ]

\* Math.floor(customers * monthlyGrowth), rounded up instead
newCustomersRoundedUp(customers, inp) ==
    CeilDiv(customers * inp.monthlyGrowth, Scale)

\* Math.floor(customers * monthlyGrowth)
newCustomersOf(customers, inp) == (customers * inp.monthlyGrowth) \div Scale

\* Math.floor(customers * this.inputs.churnRate)
churnedCustomersOf(customers, inp) == (customers * inp.churnRate) \div Scale

\* the money lines of one month
MonthFinancials(month, customers, newCustomers, churnedCustomers, revenue, cumulativeCashFlow, inp) ==
    LET cogs == Mul(revenue, Scale - inp.grossMargin)
        salesMarketing == newCustomers * inp.cac
        operatingExpenses ==
            customers * Mul(inp.arpu, opexShareOfArpu) + fixedCosts
    IN [ month |-> month, customers |-> customers,
         newCustomers |-> newCustomers,
         churnedCustomers |-> churnedCustomers,
         revenue |-> revenue, cogs |-> cogs,
         grossProfit |-> revenue - cogs,
         salesMarketing |-> salesMarketing,
         operatingExpenses |-> operatingExpenses,
         ebitda |-> (revenue - cogs) - salesMarketing - operatingExpenses,
         cumulativeCashFlow |->
            cumulativeCashFlow
              + ((revenue - cogs) - salesMarketing - operatingExpenses) ]

\* one pass of the loop: prev is customers before the month
MonthRow(month, prev, cumulativeCashFlow, inp) ==
    MonthFinancials(month,
        prev + newCustomersOf(prev, inp) - churnedCustomersOf(prev, inp),
        newCustomersOf(prev, inp), churnedCustomersOf(prev, inp),
        (prev + newCustomersOf(prev, inp) - churnedCustomersOf(prev, inp))
            * inp.arpu,
        cumulativeCashFlow, inp)

RECURSIVE MonthlyLoop(_, _, _)
MonthlyLoop(month, monthly, inp) ==
    IF month > inp.projectionMonths THEN monthly
    ELSE MonthlyLoop(month + 1,
            Append(monthly,
                   MonthRow(month,
                            IF monthly = <<>> THEN inp.startingCustomers
                            ELSE Last(monthly).customers,
                            IF monthly = <<>> THEN 0
                            ELSE Last(monthly).cumulativeCashFlow,
                            inp)),
            inp)

projectMonthly(inp) == MonthlyLoop(1, <<>>, inp)

\* monthly.slice(start, end), start and end counted from 0
Slice(s, start, end) == SubSeq(s, start + 1, end)

Revenues(rows) == [ i \in 1..Len(rows) |-> rows[i].revenue ]
Ebitdas(rows) == [ i \in 1..Len(rows) |-> rows[i].ebitda ]
GrossProfits(rows) == [ i \in 1..Len(rows) |-> rows[i].grossProfit ]
Spendings(rows) ==
    [ i \in 1..Len(rows) |-> rows[i].operatingExpenses + rows[i].salesMarketing ]

\* revenue > 0 ? ebitda / revenue : 0
MarginOf(ebitda, revenue) == IF revenue > 0 THEN Div(ebitda, revenue) ELSE 0

\* the months of quarter q (from 0) with the end of the slice not clipped to
\* the projection and the quarters overlapping by a month
QuarterMonthsOverlapping(monthly, q) ==
    Slice(monthly, q * monthsPerQuarter,
          Min(q * monthsPerQuarter + monthsPerQuarter + 1, Len(monthly)))

\* the months of quarter q (from 0)
QuarterMonths(monthly, q) ==
    Slice(monthly, q * monthsPerQuarter,
          Min(q * monthsPerQuarter + monthsPerQuarter, Len(monthly)))

QuarterRow(q, quarterMonths) ==
    [ quarter |-> q + 1,
      revenue |-> SumSeq(Revenues(quarterMonths)),
      grossProfit |-> SumSeq(GrossProfits(quarterMonths)),
      operatingExpenses |-> SumSeq(Spendings(quarterMonths)),
      ebitda |-> SumSeq(Ebitdas(quarterMonths)),
      margin |-> MarginOf(SumSeq(Ebitdas(quarterMonths)),
                          SumSeq(Revenues(quarterMonths))) ]

aggregateQuarterly(monthly) ==
    [ k \in 1..CeilDiv(Len(monthly), monthsPerQuarter) |->
        QuarterRow(k - 1, QuarterMonths(monthly, k - 1)) ]

YearMonths(monthly, y) ==
    Slice(monthly, y * monthsPerYear,
          Min(y * monthsPerYear + monthsPerYear, Len(monthly)))

YearRow(y, yearMonths) ==
    [ year |-> y + 1,
      revenue |-> SumSeq(Revenues(yearMonths)),
      ebitda |-> SumSeq(Ebitdas(yearMonths)),
      netIncome |-> Mul(SumSeq(Ebitdas(yearMonths)), operatingAfterTax),
      margin |-> MarginOf(SumSeq(Ebitdas(yearMonths)),
                          SumSeq(Revenues(yearMonths))) ]

aggregateAnnual(monthly) ==
    [ k \in 1..CeilDiv(Len(monthly), monthsPerYear) |->
        YearRow(k - 1, YearMonths(monthly, k - 1)) ]

\* the months with positive EBITDA
PositiveMonths(monthly) == { i \in 1..Len(monthly) : monthly[i].ebitda > 0 }

BreakevenOf(row) ==
    [ month |-> row.month, customers |-> row.customers,
      monthlyRevenue |-> row.revenue ]

\* monthly.find(m => m.ebitda > 0), or the last month when none is found;
\* monthly is not empty
findBreakeven(monthly) ==
    IF PositiveMonths(monthly) # {}
    THEN BreakevenOf(monthly[CHOOSE i \in PositiveMonths(monthly) :
                               \A j \in PositiveMonths(monthly) : i <= j])
    ELSE [ month |-> Len(monthly), customers |-> Last(monthly).customers,
           monthlyRevenue |-> Last(monthly).revenue ]

\* the totals of one scenario's projection, not empty
ScenarioTotals(projection) ==
    [ revenue |-> SumSeq(Revenues(projection)),
      ebitda |-> Last(projection).cumulativeCashFlow,
      customers |-> Last(projection).customers ]

\* the conservative run with the optimistic run's inputs
conservativeInputsSwapped(d, inp) ==
    OperatingModel(d,
        [ n \in DOMAIN inp |->
            IF n = "monthlyGrowth"
            THEN Some(Mul(inp.monthlyGrowth, optimisticGrowthFactor))
            ELSE IF n = "churnRate"
            THEN Some(Mul(inp.churnRate, optimisticChurnFactor))
            ELSE Some(inp[n]) ])

\* new OperatingModel(this.data, {...this.inputs, monthlyGrowth * 0.5,
\* churnRate * 2}).inputs
conservativeInputs(d, inp) ==
    OperatingModel(d,
        [ n \in DOMAIN inp |->
            IF n = "monthlyGrowth"
            THEN Some(Mul(inp.monthlyGrowth, conservativeGrowthFactor))
            ELSE IF n = "churnRate"
            THEN Some(Mul(inp.churnRate, conservativeChurnFactor))
            ELSE Some(inp[n]) ])

\* new OperatingModel(this.data, {...this.inputs, monthlyGrowth * 2,
\* churnRate * 0.5}).inputs
optimisticInputs(d, inp) ==
    OperatingModel(d,
        [ n \in DOMAIN inp |->
            IF n = "monthlyGrowth"
            THEN Some(Mul(inp.monthlyGrowth, optimisticGrowthFactor))
            ELSE IF n = "churnRate"
            THEN Some(Mul(inp.churnRate, optimisticChurnFactor))
            ELSE Some(inp[n]) ])

calculateScenarios(d, inp) ==
    [ conservative |-> ScenarioTotals(projectMonthly(conservativeInputs(d, inp))),
      base         |-> ScenarioTotals(projectMonthly(inp)),
      optimistic   |-> ScenarioTotals(projectMonthly(optimisticInputs(d, inp))) ]

OperatingResult(unitEconomics, monthly, d, inp) ==
    [ unitEconomics |-> unitEconomics,
      monthly |-> monthly,
      quarterly |-> aggregateQuarterly(monthly),
      annual |-> aggregateAnnual(monthly),
      breakeven |-> findBreakeven(monthly),
      scenarios |-> calculateScenarios(d, inp) ]

\* analyze(): with no month projected, findBreakeven reads customers of
\* monthly[-1], which is undefined
operatingAnalyze(d, inp) ==
    OperatingResult(calculateUnitEconomics(inp), projectMonthly(inp), d, inp)

(***************************************************************************)
(* Operating: one OperatingModel over one snapshot; the caller calls       *)
(* analyze().                                                              *)
(***************************************************************************)
OperatingSnapshots ==
    { Snapshot(revenue, 1000, 300, 3000, 500, 100, 20) :
        revenue \in {40000, 1000000} }

NoOperatingOverrides ==
    [ projectionMonths |-> undefined, startingCustomers |-> undefined,
      monthlyGrowth |-> undefined, cac |-> undefined, arpu |-> undefined,
      grossMargin |-> undefined, churnRate |-> undefined,
      ltvMonths |-> undefined ]

OperatingOverrides ==
    { [NoOperatingOverrides EXCEPT !.projectionMonths = Some(n),
                                   !.startingCustomers = sc,
                                   !.monthlyGrowth = g, !.churnRate = ch] :
        n \in {0, 1, 2, 4, 7, 13},
        sc \in {undefined, Some(0), Some(1500)},
        g \in {undefined, Some(0), Some(100), Some(-500)},
        ch \in {undefined, Some(0), Some(500), Some(600), Some(1000)} }
    \cup
    { [NoOperatingOverrides EXCEPT !.startingCustomers = sc] :
        sc \in {undefined, Some(1500)} }
    \cup
    { [NoOperatingOverrides EXCEPT !.projectionMonths = Some(2), !.cac = Some(0)],
      [NoOperatingOverrides EXCEPT !.projectionMonths = Some(2), !.arpu = Some(0)],
      [NoOperatingOverrides EXCEPT !.projectionMonths = Some(2),
                                   !.churnRate = Some(-20)] }

InitOperating ==
    /\ data \in OperatingSnapshots
    /\ overrides \in OperatingOverrides
    /\ inputs = OperatingModel(data, overrides)
    /\ peers = <<>>
    /\ values = <<>>
    /\ calls = <<>>

OperatingAnalyze ==
    /\ Len(calls) < MaxCalls
    /\ IF inputs.projectionMonths <= 0
       THEN calls' = Append(calls, Thrown("analyze", TypeError, data))
       ELSE calls' = Append(calls, Call("analyze", operatingAnalyze(data, inputs),
                                         data, inputs))
    /\ UNCHANGED <<data, overrides, inputs, peers, values>>

NextOperating == OperatingAnalyze

SpecOperating == InitOperating /\ [][NextOperating]_vars

(***************************************************************************)
(* Claims about OperatingModel                                             *)
(***************************************************************************)
\* the calls that returned a result
Returned == { i \in 1..Len(calls) : "result" \in DOMAIN calls[i] }

\* customers before month m of a projection
CustomersBefore(monthly, m, inp) ==
    IF m = 1 THEN inp.startingCustomers ELSE monthly[m - 1].customers

\* the recurrence of month m and its running total
MonthFollowsRecurrence(monthly, m, inp) ==
    /\ monthly[m].newCustomers
         = (CustomersBefore(monthly, m, inp) * inp.monthlyGrowth) \div Scale
    /\ monthly[m].churnedCustomers
         = (CustomersBefore(monthly, m, inp) * inp.churnRate) \div Scale
    /\ monthly[m].customers
         = CustomersBefore(monthly, m, inp) + monthly[m].newCustomers
             - monthly[m].churnedCustomers
    /\ monthly[m].cumulativeCashFlow = SumSeq(Ebitdas(SubSeq(monthly, 1, m)))

\* C22: in every month newCustomers = floor(prev * monthlyGrowth),
\* churnedCustomers = floor(prev * churnRate), customers = prev + newCustomers
\* - churnedCustomers and cumulativeCashFlow is the sum of EBITDA so far;
\* customers is never negative when startingCustomers >= 0 and
\* 0 <= churnRate <= 1.
C22_MonthlyRecurrence ==
    \A i \in Returned :
        \A m \in 1..Len(calls[i].result.monthly) :
            /\ MonthFollowsRecurrence(calls[i].result.monthly, m,
                                      calls[i].inputsBefore)
            /\ ( /\ calls[i].inputsBefore.startingCustomers >= 0
                 /\ calls[i].inputsBefore.churnRate >= 0
                 /\ calls[i].inputsBefore.churnRate <= Scale )
               => calls[i].result.monthly[m].customers >= 0

\* C22 as amended: the same, customers being never negative when moreover
\* monthlyGrowth >= 0.
C22_MonthlyRecurrenceOfGrowingBase ==
    \A i \in Returned :
        \A m \in 1..Len(calls[i].result.monthly) :
            /\ MonthFollowsRecurrence(calls[i].result.monthly, m,
                                      calls[i].inputsBefore)
            /\ ( /\ calls[i].inputsBefore.startingCustomers >= 0
                 /\ calls[i].inputsBefore.monthlyGrowth >= 0
                 /\ calls[i].inputsBefore.churnRate >= 0
                 /\ calls[i].inputsBefore.churnRate <= Scale )
               => calls[i].result.monthly[m].customers >= 0

\* a projection of several months whose new customers were rounded down and
\* whose customers churned
C22_Witness ==
    /\ Returned # {}
    /\ inputs.monthlyGrowth > 0
    /\ inputs.churnRate > 0 /\ inputs.churnRate <= Scale
    /\ inputs.startingCustomers > 0
    /\ \E m \in 2..Len(Last(calls).result.monthly) :
          /\ (Last(calls).result.monthly[m - 1].customers * inputs.monthlyGrowth)
                % Scale # 0
          /\ Last(calls).result.monthly[m].newCustomers > 0
          /\ Last(calls).result.monthly[m].churnedCustomers > 0

\* C23: there are ceil(N / 3) quarters and ceil(N / 12) years, quarter k sums
\* months 3k-2..3k of the projection, and the quarterly, the annual and the
\* monthly revenue have the same sum, and so has EBITDA.
C23_RollupsPartitionMonths ==
    \A i \in Returned :
        LET r == calls[i].result
            N == calls[i].inputsBefore.projectionMonths
        IN /\ Len(r.monthly) = N
           /\ Len(r.quarterly) = (N + 2) \div 3
           /\ Len(r.annual) = (N + 11) \div 12
           /\ \A k \in 1..Len(r.quarterly) :
                r.quarterly[k].revenue
                  = SumSeq(Revenues(SubSeq(r.monthly, 3 * k - 2, Min(3 * k, N))))
           /\ SumSeq(Revenues(r.quarterly)) = SumSeq(Revenues(r.monthly))
           /\ SumSeq(Revenues(r.annual)) = SumSeq(Revenues(r.monthly))
           /\ SumSeq(Ebitdas(r.quarterly)) = SumSeq(Ebitdas(r.monthly))
           /\ SumSeq(Ebitdas(r.annual)) = SumSeq(Ebitdas(r.monthly))

\* thirteen months with revenue rolled up into five quarters and two years,
\* the last of each incomplete
C23_Witness ==
    /\ Returned # {}
    /\ inputs.projectionMonths = 13
    /\ Len(Last(calls).result.quarterly) = 5
    /\ Len(Last(calls).result.annual) = 2
    /\ Last(calls).result.quarterly[5].revenue > 0
    /\ Last(calls).result.annual[2].revenue
         = Last(calls).result.monthly[13].revenue

\* C24: the monthly row at breakeven.month has ebitda > 0, no earlier month
\* has, and breakeven.customers and breakeven.monthlyRevenue are that row's.
C24_BreakevenIsFirstPositiveMonth ==
    \A i \in Returned :
        LET r == calls[i].result
        IN /\ r.breakeven.month \in 1..Len(r.monthly)
           /\ r.monthly[r.breakeven.month].ebitda > 0
           /\ \A m \in 1..(r.breakeven.month - 1) : r.monthly[m].ebitda <= 0
           /\ r.breakeven.customers = r.monthly[r.breakeven.month].customers
           /\ r.breakeven.monthlyRevenue = r.monthly[r.breakeven.month].revenue

\* the same for the projections in which some month has positive EBITDA
C24_BreakevenOfProfitableProjection ==
    \A i \in Returned :
        LET r == calls[i].result
        IN PositiveMonths(r.monthly) # {}
           => /\ r.monthly[r.breakeven.month].ebitda > 0
              /\ \A m \in 1..(r.breakeven.month - 1) : r.monthly[m].ebitda <= 0
              /\ r.breakeven.customers = r.monthly[r.breakeven.month].customers
              /\ r.breakeven.monthlyRevenue = r.monthly[r.breakeven.month].revenue

\* a breakeven in the middle of a projection, with profitable months after it
C24_MidProjectionBreakeven ==
    /\ Returned # {}
    /\ Last(calls).result.breakeven.month > 1
    /\ Last(calls).result.breakeven.month < Len(Last(calls).result.monthly)
    /\ Last(calls).result.monthly[Last(calls).result.breakeven.month].ebitda > 0

\* the inputs of a scenario run: the instance's, with the two rates scaled
ScaledInputs(inp, growthFactor, churnFactor) ==
    [inp EXCEPT !.monthlyGrowth = Mul(inp.monthlyGrowth, growthFactor),
                !.churnRate = Mul(inp.churnRate, churnFactor)]

\* C29: scenarios.base has the totals of the main monthly projection, the
\* conservative and the optimistic run are the projection of the same inputs
\* with monthlyGrowth x0.5 / x2 and churnRate x2 / x0.5, and for
\* monthlyGrowth >= 0 and 0 <= churnRate <= 0.5 the final customers are ordered
\* conservative <= base <= optimistic.
C29_ScenariosBracketBase ==
    \A i \in Returned :
        LET r == calls[i].result
            inp == calls[i].inputsBefore
        IN /\ r.scenarios.base.revenue = SumSeq(Revenues(r.monthly))
           /\ r.scenarios.base.ebitda = Last(r.monthly).cumulativeCashFlow
           /\ r.scenarios.base.customers = Last(r.monthly).customers
           /\ r.scenarios.conservative
                = ScenarioTotals(projectMonthly(ScaledInputs(inp, 500, 2000)))
           /\ r.scenarios.optimistic
                = ScenarioTotals(projectMonthly(ScaledInputs(inp, 2000, 500)))
           /\ ( inp.monthlyGrowth >= 0 /\ inp.churnRate >= 0
                /\ 2 * inp.churnRate <= Scale )
              => /\ r.scenarios.conservative.customers <= r.scenarios.base.customers
                 /\ r.scenarios.base.customers <= r.scenarios.optimistic.customers

\* three scenarios of a growing, churning base that end on three different
\* customer counts
C29_Witness ==
    /\ Returned # {}
    /\ inputs.monthlyGrowth > 0
    /\ inputs.churnRate > 0 /\ 2 * inputs.churnRate <= Scale
    /\ inputs.projectionMonths >= 2
    /\ Last(calls).result.scenarios.conservative.customers
         < Last(calls).result.scenarios.base.customers
    /\ Last(calls).result.scenarios.base.customers
         < Last(calls).result.scenarios.optimistic.customers

(***************************************************************************)
(* Claims about MAModel's funding mix                                      *)
(***************************************************************************)
\* the caller supplied all three percentages and they sum to 1
SuppliedMixSumsToOne ==
    /\ overrides.cashPercent # undefined
    /\ overrides.stockPercent # undefined
    /\ overrides.debtPercent # undefined
    /\ overrides.cashPercent[1] + overrides.stockPercent[1]
         + overrides.debtPercent[1] = Scale

\* C25: for supplied cashPercent, stockPercent and debtPercent that sum to 1,
\* zeros included, the three components of the deal are totalConsideration
\* times the supplied percentage and sum to totalConsideration, sharesIssued
\* is stockComponent / acquirer price, and a supplied premium of 0 gives
\* offerPrice = targetPrice.
C25_SuppliedMixIsHonoured ==
    \A i \in 1..Len(calls) :
        LET deal == calls[i].result.deal
        IN /\ SuppliedMixSumsToOne
              => /\ deal.cashComponent
                      = Mul(deal.totalConsideration, overrides.cashPercent[1])
                 /\ deal.stockComponent
                      = Mul(deal.totalConsideration, overrides.stockPercent[1])
                 /\ deal.debtComponent
                      = Mul(deal.totalConsideration, overrides.debtPercent[1])
                 /\ deal.cashComponent + deal.stockComponent
                      + deal.debtComponent = deal.totalConsideration
                 /\ deal.sharesIssued
                      = deal.stockComponent
                          \div calls[i].before.acquirer.stockPrice.current
           /\ overrides.premium = Some(0) => deal.offerPrice = deal.targetPrice

(***************************************************************************)
(* SensitivityModel: every valuation is the impliedSharePrice of a new     *)
(* DCFModel built over this.data, the snapshot the caller handed in; the   *)
(* valuations of one analyze() run one after the other on that snapshot.   *)
(***************************************************************************)
baseRevenueGrowth == 100
baseMargin == 200
baseWacc == 100
baseTerminalGrowth == 25
revenueGrowthRange == <<50, 80, 100, 120, 150>>
marginRange == <<150, 180, 200, 220, 250>>
waccRange == <<80, 90, 100, 110, 120>>
terminalGrowthRange == <<10, 20, 25, 30, 40>>
growthYears == 5
bestCase == [ revenueGrowth |-> 150, margin |-> 250, wacc |-> 80,
              terminalGrowth |-> 40 ]
worstCase == [ revenueGrowth |-> 50, margin |-> 150, wacc |-> 120,
               terminalGrowth |-> 10 ]
bestCaseProbability == 250
baseCaseProbability == 500
worstCaseProbability == 250

\* Object.entries(this.inputs.ranges): the keys in insertion order
RangeVariables == <<"revenueGrowth", "margin", "wacc", "terminalGrowth">>
breakevenVars == <<"revenueGrowth", "wacc", "terminalGrowth">>

\* constructor: the defaults, then the supplied fields spread over them
SensitivityModel(o) ==
    [ baseVariables |->
        [ revenueGrowth  |-> Coalesce(o.baseVariables.revenueGrowth, baseRevenueGrowth),
          margin         |-> Coalesce(o.baseVariables.margin, baseMargin),
          wacc           |-> Coalesce(o.baseVariables.wacc, baseWacc),
          terminalGrowth |-> Coalesce(o.baseVariables.terminalGrowth,
                                      baseTerminalGrowth) ],
      ranges |->
        [ revenueGrowth  |-> Coalesce(o.ranges.revenueGrowth, revenueGrowthRange),
          margin         |-> Coalesce(o.ranges.margin, marginRange),
          wacc           |-> Coalesce(o.ranges.wacc, waccRange),
          terminalGrowth |-> Coalesce(o.ranges.terminalGrowth,
                                      terminalGrowthRange) ] ]

\* calculateValuation() with no argument
NoChange == [ n \in {} |-> 0 ]

\* { ...this.inputs.baseVariables, ...overrides }
MergedVariables(base, change) ==
    [ n \in DOMAIN base |-> IF n \in DOMAIN change THEN change[n] ELSE base[n] ]

\* the inputs of the DCFModel that calculateValuation builds
ValuationInputs(d, variables) ==
    DCFModel(d, [NoDCFOverrides EXCEPT
                    !.revenueGrowth = Some([ y \in 1..growthYears |->
                                               variables.revenueGrowth ]),
                    !.wacc = Some(variables.wacc),
                    !.terminalGrowth = Some(variables.terminalGrowth)])

\* calculateValuation(overrides): the DCFValuation and the snapshot it leaves
calculateValuation(d, base, change) ==
    calculate(d, ValuationInputs(d, MergedVariables(base, change)))

RECURSIVE Valuations(_, _, _, _)
\* the valuations of the changes in turn, each on the snapshot the one
\* before it left
ValuationsAfter(c, base, changes, outputs) ==
    Valuations(c.data, base, changes,
               Append(outputs, c.result.impliedSharePrice))

Valuations(d, base, changes, outputs) ==
    IF changes = <<>> THEN [outputs |-> outputs, data |-> d]
    ELSE ValuationsAfter(calculateValuation(d, base, Head(changes)), base,
                         Tail(changes), outputs)

RECURSIVE Concat(_)
\* the sequences of a sequence joined
Concat(ss) == IF ss = <<>> THEN <<>> ELSE Head(ss) \o Concat(Tail(ss))

\* { [variable]: value } for every value of the range
ChangesOf(variable, range) ==
    [ i \in 1..Len(range) |-> [ n \in {variable} |-> range[i] ] ]

calculateBaseCase(d, inp) ==
    [ value |-> [ variables |-> inp.baseVariables,
                  valuation |-> calculateValuation(d, inp.baseVariables, NoChange)
                                  .result.impliedSharePrice ],
      data |-> calculateValuation(d, inp.baseVariables, NoChange).data ]

\* the positions of a variable's values among the valuations of all ranges
OffsetOf(ranges, variables, k) ==
    SumSeq([ j \in 1..(k - 1) |-> Len(ranges[variables[j]]) ])

OneWayOf(ranges, outputs) ==
    [ k \in 1..Len(RangeVariables) |->
        [ variable |-> RangeVariables[k],
          values |->
            [ i \in 1..Len(ranges[RangeVariables[k]]) |->
                [ input |-> ranges[RangeVariables[k]][i],
                  output |-> outputs[OffsetOf(ranges, RangeVariables, k) + i] ] ] ] ]

OneWayResult(inp, run) ==
    [ value |-> OneWayOf(inp.ranges, run.outputs), data |-> run.data ]

calculateOneWaySensitivity(d, inp) ==
    OneWayResult(inp,
        Valuations(d, inp.baseVariables,
                   Concat([ k \in 1..Len(RangeVariables) |->
                              ChangesOf(RangeVariables[k],
                                        inp.ranges[RangeVariables[k]]) ]),
                   <<>>))

\* the changes of the two-way table, row by row
TwoWayChanges(range1, range2) ==
    Concat([ i \in 1..Len(range1) |->
               [ j \in 1..Len(range2) |->
                   [ revenueGrowth |-> range1[i], wacc |-> range2[j] ] ] ])

TwoWayResult(range1, range2, run) ==
    [ value |->
        << [ variable1 |-> RangeVariables[1], variable2 |-> RangeVariables[3],
             matrix |-> [ i \in 1..Len(range1) |->
                            [ j \in 1..Len(range2) |->
                                run.outputs[(i - 1) * Len(range2) + j] ] ],
             rowLabels |-> range1, colLabels |-> range2 ] >>,
      data |-> run.data ]

calculateTwoWaySensitivity(d, inp) ==
    TwoWayResult(inp.ranges.revenueGrowth, inp.ranges.wacc,
        Valuations(d, inp.baseVariables,
                   TwoWayChanges(inp.ranges.revenueGrowth, inp.ranges.wacc),
                   <<>>))

\* the assumptions that calculateValuation reads: margin is not one of them
Valued(case) ==
    [ revenueGrowth |-> case.revenueGrowth, wacc |-> case.wacc,
      terminalGrowth |-> case.terminalGrowth ]

ScenariosResult(inp, run) ==
    [ value |->
        << [ name |-> "Best Case", assumptions |-> bestCase,
             valuation |-> run.outputs[2], probability |-> bestCaseProbability ],
           [ name |-> "Base Case", assumptions |-> inp.baseVariables,
             valuation |-> run.outputs[1], probability |-> baseCaseProbability ],
           [ name |-> "Worst Case", assumptions |-> worstCase,
             valuation |-> run.outputs[3], probability |-> worstCaseProbability ] >>,
      data |-> run.data ]

sensitivityCalculateScenarios(d, inp) ==
    ScenariosResult(inp,
        Valuations(d, inp.baseVariables,
                   <<NoChange, Valued(bestCase), Valued(worstCase)>>, <<>>))

Abs(x) == IF x < 0 THEN -x ELSE x

RECURSIVE ClosestFrom(_, _, _, _, _, _)
\* the loop of findBreakevenValue from value i on; minDiff is <<>> while it
\* is Infinity
ClosestFrom(i, range, outputs, target, closest, minDiff) ==
    IF i > Len(range) THEN closest
    ELSE IF minDiff = <<>> \/ Abs(outputs[i] - target) < minDiff[1]
    THEN ClosestFrom(i + 1, range, outputs, target, range[i],
                     <<Abs(outputs[i] - target)>>)
    ELSE ClosestFrom(i + 1, range, outputs, target, closest, minDiff)

\* range[0] || 0, then the loop
findBreakevenValue(range, outputs, target) ==
    ClosestFrom(1, range, outputs, target,
                IF range = <<>> THEN 0 ELSE range[1], <<>>)

BreakevenEntry(variable, currentValue, threshold) ==
    [ variable |-> variable, threshold |-> threshold,
      currentValue |-> currentValue,
      buffer |-> Div(Abs(currentValue - threshold),
                     IF currentValue = 0 THEN Scale ELSE currentValue) ]

BreakevenResult(d, inp, run) ==
    [ value |->
        [ k \in 1..Len(breakevenVars) |->
            BreakevenEntry(breakevenVars[k],
                inp.baseVariables[breakevenVars[k]],
                findBreakevenValue(inp.ranges[breakevenVars[k]],
                    SubSeq(run.outputs,
                           OffsetOf(inp.ranges, breakevenVars, k) + 1,
                           OffsetOf(inp.ranges, breakevenVars, k + 1)),
                    d.stockPrice.current)) ],
      data |-> run.data ]

calculateBreakeven(d, inp) ==
    BreakevenResult(d, inp,
        Valuations(d, inp.baseVariables,
                   Concat([ k \in 1..Len(breakevenVars) |->
                              ChangesOf(breakevenVars[k],
                                        inp.ranges[breakevenVars[k]]) ]),
                   <<>>))

\* the variables of the tornado: range.length >= 2
TornadoVariables(ranges) ==
    SelectSeq(RangeVariables, LAMBDA v : Len(ranges[v]) >= 2)

TornadoEntry(variable, low, base, high) ==
    [ variable |-> variable, low |-> Min(low, high), base |-> base,
      high |-> Max(low, high), impact |-> Ratio(Abs(high - low), base) ]

\* b.impact - a.impact < 0: a sorts before b
LargerImpact(a, b) ==
    \/ a.impact.class = "finite" /\ b.impact.class = "finite"
         /\ a.impact.value > b.impact.value
    \/ a.impact.class = Infinity /\ b.impact.class \in {"finite", MinusInfinity}
    \/ a.impact.class = "finite" /\ b.impact.class = MinusInfinity

RECURSIVE InsertByImpact(_, _)
InsertByImpact(sorted, e) ==
    IF sorted = <<>> THEN <<e>>
    ELSE IF LargerImpact(e, Head(sorted)) THEN <<e>> \o sorted
    ELSE <<Head(sorted)>> \o InsertByImpact(Tail(sorted), e)

RECURSIVE SortByImpact(_, _)
\* tornado.sort((a, b) => b.impact - a.impact): stable, largest impact first
SortByImpact(entries, sorted) ==
    IF entries = <<>> THEN sorted
    ELSE SortByImpact(Tail(entries), InsertByImpact(sorted, Head(entries)))

TornadoOf(variables, outputs) ==
    [ k \in 1..Len(variables) |->
        TornadoEntry(variables[k], outputs[2 * k], outputs[1],
                     outputs[2 * k + 1]) ]

TornadoResult(variables, run) ==
    [ value |-> SortByImpact(TornadoOf(variables, run.outputs), <<>>),
      data |-> run.data ]

calculateTornado(d, inp) ==
    TornadoResult(TornadoVariables(inp.ranges),
        Valuations(d, inp.baseVariables,
                   <<NoChange>> \o
                   Concat([ k \in 1..Len(TornadoVariables(inp.ranges)) |->
                              << [ n \in {TornadoVariables(inp.ranges)[k]} |->
                                     inp.ranges[n][1] ],
                                 [ n \in {TornadoVariables(inp.ranges)[k]} |->
                                     Last(inp.ranges[n]) ] >> ]),
                   <<>>))

\* analyze(): the six parts in turn, each on the snapshot the one before left
AnalyzeTornado(acc, t) ==
    [ result |-> acc @@ [ tornado |-> t.value ], data |-> t.data ]
AnalyzeBreakeven(inp, acc, b) ==
    AnalyzeTornado(acc @@ [ breakeven |-> b.value ], calculateTornado(b.data, inp))
AnalyzeScenarios(inp, acc, s) ==
    AnalyzeBreakeven(inp, acc @@ [ scenarios |-> s.value ],
                     calculateBreakeven(s.data, inp))
AnalyzeTwoWay(inp, acc, t) ==
    AnalyzeScenarios(inp, acc @@ [ twoWay |-> t.value ],
                     sensitivityCalculateScenarios(t.data, inp))
AnalyzeOneWay(inp, acc, o) ==
    AnalyzeTwoWay(inp, acc @@ [ oneWay |-> o.value ],
                  calculateTwoWaySensitivity(o.data, inp))
AnalyzeBaseCase(inp, b) ==
    AnalyzeOneWay(inp, [ baseCase |-> b.value ],
                  calculateOneWaySensitivity(b.data, inp))

sensitivityAnalyze(d, inp) == AnalyzeBaseCase(inp, calculateBaseCase(d, inp))

(***************************************************************************)
(* Sensitivity: one SensitivityModel over one snapshot; the caller calls   *)
(* analyze().  The ranges are kept short: every valuation compounds the    *)
(* snapshot's latest revenue.                                              *)
(***************************************************************************)
MaxSensitivityRevenue == 5000   \* analyze() is called while the latest revenue is at most this

SensitivitySnapshots ==
    { Snapshot(revenue, 300, 100, totalDebt, 500, 10, 100) :
        revenue \in {1000, 2000}, totalDebt \in {0, 500} }

NoBaseVariables ==
    [ revenueGrowth |-> undefined, margin |-> undefined, wacc |-> undefined,
      terminalGrowth |-> undefined ]

SensitivityOverrides ==
    { [ baseVariables |-> [NoBaseVariables EXCEPT !.revenueGrowth = Some(0),
                                                  !.wacc = w],
        ranges |-> [ revenueGrowth |-> Some(g), margin |-> m, wacc |-> wr,
                     terminalGrowth |-> t ] ] :
        w \in {undefined, Some(90)},
        g \in {<<>>, <<0>>, <<0, 20>>},
        m \in {undefined, Some(<<>>), Some(<<200, 250>>)},
        wr \in {undefined, Some(<<>>), Some(<<80, 120>>)},
        t \in {undefined, Some(<<>>), Some(<<10, 40>>)} }
    \cup
    { [ baseVariables |-> [NoBaseVariables EXCEPT !.revenueGrowth = b, !.wacc = w],
        ranges |-> [ revenueGrowth |-> Some(<<>>), margin |-> Some(<<>>),
                     wacc |-> Some(wr), terminalGrowth |-> Some(<<>>) ] ] :
        b \in {undefined, Some(20)},
        w \in {undefined, Some(90)},
        wr \in {<<>>, <<90>>} }

InitSensitivity ==
    /\ data \in SensitivitySnapshots
    /\ overrides \in SensitivityOverrides
    /\ inputs = SensitivityModel(overrides)
    /\ peers = <<>>
    /\ values = <<>>
    /\ calls = <<>>

SensitivityAnalyze ==
    /\ Len(calls) < MaxCalls
    /\ lastStatementOf(data).revenue <= MaxSensitivityRevenue
    /\ calls' = Append(calls, Call("analyze",
                                   sensitivityAnalyze(data, inputs).result,
                                   data, inputs))
    /\ data' = sensitivityAnalyze(data, inputs).data
    /\ UNCHANGED <<overrides, inputs, peers, values>>

NextSensitivity == SensitivityAnalyze

SpecSensitivity == InitSensitivity /\ [][NextSensitivity]_vars

(***************************************************************************)
(* Claims about SensitivityModel                                           *)
(***************************************************************************)
\* the implied share price of a new DCFModel over the snapshot d with the
\* base variables and the one variable set to value
FreshValuation(d, base, variable, value) ==
    calculate(d, ValuationInputs(d,
                    MergedVariables(base, [ n \in {variable} |-> value ])))
        .result.impliedSharePrice

\* C26: every one-way output equals the implied share price that a new
\* DCFModel computes over the snapshot as it was when analyze() was called,
\* with the base variables and only that variable set to the input value,
\* whatever valuations ran before it.
C26_OneWayOutputsAreFreshValuations ==
    \A i \in 1..Len(calls) :
        \A k \in 1..Len(calls[i].result.oneWay) :
            \A j \in 1..Len(calls[i].result.oneWay[k].values) :
                calls[i].result.oneWay[k].values[j].output
                  = FreshValuation(calls[i].before,
                                   calls[i].inputsBefore.baseVariables,
                                   calls[i].result.oneWay[k].variable,
                                   calls[i].result.oneWay[k].values[j].input)

\* no valuation that runs up to the one-way table grows revenue
NoGrowthUpToOneWay(inp) ==
    /\ inp.baseVariables.revenueGrowth = 0
    /\ \A j \in 1..Len(inp.ranges.revenueGrowth) : inp.ranges.revenueGrowth[j] = 0

\* the same for the calls in which revenue does not grow before the one-way
\* table is done
C26_OneWayOutputsWithoutGrowth ==
    \A i \in 1..Len(calls) :
        NoGrowthUpToOneWay(calls[i].inputsBefore)
        => \A k \in 1..Len(calls[i].result.oneWay) :
             \A j \in 1..Len(calls[i].result.oneWay[k].values) :
                calls[i].result.oneWay[k].values[j].output
                  = FreshValuation(calls[i].before,
                                   calls[i].inputsBefore.baseVariables,
                                   calls[i].result.oneWay[k].variable,
                                   calls[i].result.oneWay[k].values[j].input)

\* C27: in one analyze() result baseCase.valuation, the valuation of the
\* 'Base Case' scenario and the base of every tornado entry are the same
\* number.
C27_BaseValuationsAgree ==
    \A i \in 1..Len(calls) :
        LET r == calls[i].result
        IN /\ r.scenarios[2].name = "Base Case"
           /\ r.scenarios[2].valuation = r.baseCase.valuation
           /\ \A k \in 1..Len(r.tornado) : r.tornado[k].base = r.baseCase.valuation

(***************************************************************************)
(* Claims about the agreement of ThreeStatementModel's three statements    *)
(***************************************************************************)
\* C28: in every projected year of project()'s result the balance sheet's
\* cash is the cash-flow statement's endingCash, totalLiabilitiesAndEquity is
\* totalAssets, and totalDebt is the totalDebt of the snapshot's latest
\* balance sheet.
C28_StatementsAgree ==
    \A i \in 1..Len(calls) :
        calls[i].op = "project" =>
            \A y \in 1..Len(calls[i].result.balanceSheets) :
                /\ calls[i].result.balanceSheets[y].cash
                     = calls[i].result.cashFlowStatements[y].endingCash
                /\ calls[i].result.balanceSheets[y].totalLiabilitiesAndEquity
                     = calls[i].result.balanceSheets[y].totalAssets
                /\ calls[i].result.balanceSheets[y].totalDebt
                     = lastBalanceOf(calls[i].before).totalDebt

\* what the balance sheet of a year does hold: the cash the year began with
C28_BalanceSheetHoldsBeginningCash ==
    \A i \in 1..Len(calls) :
        calls[i].op = "project" =>
            \A y \in 1..Len(calls[i].result.balanceSheets) :
                /\ calls[i].result.balanceSheets[y].cash
                     = calls[i].result.cashFlowStatements[y].beginningCash
                /\ calls[i].result.balanceSheets[y].totalLiabilitiesAndEquity
                     = calls[i].result.balanceSheets[y].totalAssets
                /\ calls[i].result.balanceSheets[y].totalDebt
                     = lastBalanceOf(calls[i].before).totalDebt

(***************************************************************************)
(* SOTPModel (sum of the parts).  A multiple is held as a rate.            *)
(***************************************************************************)
sotpCorporateOverhead == 20
sotpDefaultMultiple == 10
dcfBaseMultiple == 10
dcfGrowthMultiple == 50
compsBaseMultiple == 8
compsMarginMultiple == 20
overheadMultiple == 8
conservativeShare == 850
optimisticShare == 1200

\* deriveSegments(): the four business units cut from the latest period
deriveSegments(d) ==
    << [ name |-> "core", revenue |-> Mul(lastStatementOf(d).revenue, 500),
         ebitda |-> Mul(lastStatementOf(d).ebitda, 600), ebitdaMargin |-> 300,
         growthRate |-> 80, methodology |-> "comps",
         multiple |-> Some(12 * Scale) ],
       [ name |-> "growth", revenue |-> Mul(lastStatementOf(d).revenue, 250),
         ebitda |-> Mul(lastStatementOf(d).ebitda, 250), ebitdaMargin |-> 200,
         growthRate |-> 200, methodology |-> "multiple",
         multiple |-> Some(18 * Scale) ],
       [ name |-> "legacy", revenue |-> Mul(lastStatementOf(d).revenue, 200),
         ebitda |-> Mul(lastStatementOf(d).ebitda, 120), ebitdaMargin |-> 150,
         growthRate |-> 20, methodology |-> "multiple",
         multiple |-> Some(6 * Scale) ],
       [ name |-> "new", revenue |-> Mul(lastStatementOf(d).revenue, 50),
         ebitda |-> Mul(lastStatementOf(d).ebitda, 30), ebitdaMargin |-> 100,
         growthRate |-> 350, methodology |-> "multiple",
         multiple |-> Some(25 * Scale) ] >>

\* constructor: every default is taken with ||; an empty segments array is
\* kept, a corporateOverhead of 0 is not
SOTPModel(d, o) ==
    [ segments          |-> IF o.segments = undefined THEN deriveSegments(d)
                            ELSE o.segments[1],
      corporateOverhead |-> OrElse(o.corporateOverhead, sotpCorporateOverhead),
      netDebtAllocation |-> Coalesce(o.netDebtAllocation, "ebitda") ]

\* the multiple a segment is valued at
MultipleOf(segment) ==
    IF segment.methodology = "dcf"
    THEN dcfBaseMultiple * Scale + segment.growthRate * dcfGrowthMultiple
    ELSE IF segment.methodology = "comps"
    THEN compsBaseMultiple * Scale + segment.ebitdaMargin * compsMarginMultiple
    ELSE OrElse(segment.multiple, sotpDefaultMultiple * Scale)

SegmentEbitdas(segments) == [ i \in 1..Len(segments) |-> segments[i].ebitda ]

ValuedSegment(segment, totalEBITDA) ==
    [ name |-> segment.name, revenue |-> segment.revenue,
      ebitda |-> segment.ebitda, methodology |-> segment.methodology,
      multiple |-> MultipleOf(segment),
      value |-> Mul(segment.ebitda, MultipleOf(segment)),
      percentOfTotal |-> Ratio(segment.ebitda, totalEBITDA) ]

valueSegments(inp) ==
    [ i \in 1..Len(inp.segments) |->
        ValuedSegment(inp.segments[i], SumSeq(SegmentEbitdas(inp.segments))) ]

\* -totalEBITDA * corporateOverhead * 8
overheadValue(d, inp) ==
    Mul(- lastStatementOf(d).ebitda, inp.corporateOverhead) * overheadMultiple

calculateAdjustments(d, inp) ==
    [ corporateOverhead |-> Mul(lastStatementOf(d).ebitda, inp.corporateOverhead),
      corporateOverheadValue |-> overheadValue(d, inp),
      netDebt |-> lastBalanceOf(d).totalDebt - lastBalanceOf(d).cashAndEquivalents,
      cash |-> lastBalanceOf(d).cashAndEquivalents,
      minorityInterest |-> 0 ]

SegmentValues(segments) == [ i \in 1..Len(segments) |-> segments[i].value ]

calculateSumOfParts(segments, adjustments) ==
    [ grossValue |-> SumSeq(SegmentValues(segments)),
      netValue |-> SumSeq(SegmentValues(segments))
                     + adjustments.corporateOverheadValue ]

calculateImpliedValue(d, inp, sumOfParts) ==
    [ enterpriseValue |-> sumOfParts.netValue,
      equityValue |-> sumOfParts.netValue - calculateAdjustments(d, inp).netDebt,
      perShare |-> Ratio(sumOfParts.netValue - calculateAdjustments(d, inp).netDebt,
                         d.profile.sharesOutstanding) ]

ScenarioValue(value, adjustments) ==
    value - Abs(adjustments.corporateOverheadValue) - adjustments.netDebt

sotpCalculateScenarios(d, inp, segments) ==
    [ conservative |-> ScenarioValue(Mul(SumSeq(SegmentValues(segments)),
                                         conservativeShare),
                                     calculateAdjustments(d, inp)),
      base         |-> ScenarioValue(SumSeq(SegmentValues(segments)),
                                     calculateAdjustments(d, inp)),
      optimistic   |-> ScenarioValue(Mul(SumSeq(SegmentValues(segments)),
                                         optimisticShare),
                                     calculateAdjustments(d, inp)) ]

SOTPResult(d, inp, segments, adjustments, sumOfParts) ==
    [ segments |-> segments, adjustments |-> adjustments,
      sumOfParts |-> sumOfParts,
      impliedValue |-> calculateImpliedValue(d, inp, sumOfParts),
      scenarios |-> sotpCalculateScenarios(d, inp, segments) ]

sotpAnalyze(d, inp) ==
    SOTPResult(d, inp, valueSegments(inp), calculateAdjustments(d, inp),
               calculateSumOfParts(valueSegments(inp), calculateAdjustments(d, inp)))

(***************************************************************************)
(* SOTP: one SOTPModel over one snapshot; the caller calls analyze().      *)
(***************************************************************************)
SOTPSnapshots ==
    { Snapshot(4000, ebitda, 300, totalDebt, 500, 100, 20) :
        ebitda \in {-500, 0, 1000}, totalDebt \in {0, 3000} }

SuppliedSegments ==
    { <<>>,
      << [ name |-> "a", revenue |-> 2000, ebitda |-> 600, ebitdaMargin |-> 300,
           growthRate |-> 100, methodology |-> "dcf", multiple |-> undefined ],
         [ name |-> "b", revenue |-> 1000, ebitda |-> 200, ebitdaMargin |-> 200,
           growthRate |-> 50, methodology |-> "multiple", multiple |-> undefined ] >>,
      << [ name |-> "a", revenue |-> 2000, ebitda |-> -400, ebitdaMargin |-> -200,
           growthRate |-> 100, methodology |-> "comps", multiple |-> Some(0) ],
         [ name |-> "b", revenue |-> 1000, ebitda |-> 400, ebitdaMargin |-> 400,
           growthRate |-> 50, methodology |-> "multiple",
           multiple |-> Some(7 * Scale) ] >> }

SOTPOverrides ==
    { [ segments |-> s, corporateOverhead |-> c, netDebtAllocation |-> a ] :
        s \in {undefined} \cup { Some(x) : x \in SuppliedSegments },
        c \in {undefined, Some(0), Some(50), Some(-20)},
        a \in {undefined, Some("equal")} }

InitSOTP ==
    /\ data \in SOTPSnapshots
    /\ overrides \in SOTPOverrides
    /\ inputs = SOTPModel(data, overrides)
    /\ peers = <<>>
    /\ values = <<>>
    /\ calls = <<>>

SOTPAnalyze ==
    /\ Len(calls) < MaxCalls
    /\ calls' = Append(calls, Call("analyze", sotpAnalyze(data, inputs),
                                   data, inputs))
    /\ UNCHANGED <<data, overrides, inputs, peers, values>>

NextSOTP == SOTPAnalyze

SpecSOTP == InitSOTP /\ [][NextSOTP]_vars

(***************************************************************************)
(* Claims about SOTPModel                                                  *)
(***************************************************************************)
\* C30: scenarios.base equals impliedValue.equityValue, both being the gross
\* segment value plus the corporate-overhead valuation minus net debt, and
\* sumOfParts.netValue = grossValue + adjustments.corporateOverheadValue, for
\* any snapshot and segments, a negative latest EBITDA included.
C30_BaseScenarioIsEquityValue ==
    \A i \in 1..Len(calls) :
        LET r == calls[i].result
        IN /\ r.sumOfParts.netValue
                = r.sumOfParts.grossValue + r.adjustments.corporateOverheadValue
           /\ r.impliedValue.equityValue
                = r.sumOfParts.grossValue + r.adjustments.corporateOverheadValue
                    - r.adjustments.netDebt
           /\ r.scenarios.base = r.impliedValue.equityValue

\* the same for the calls in which the overhead valuation is not positive
C30_BaseScenarioOfNegativeOverhead ==
    \A i \in 1..Len(calls) :
        LET r == calls[i].result
        IN r.adjustments.corporateOverheadValue <= 0
           => /\ r.sumOfParts.netValue
                   = r.sumOfParts.grossValue + r.adjustments.corporateOverheadValue
              /\ r.impliedValue.equityValue
                   = r.sumOfParts.grossValue + r.adjustments.corporateOverheadValue
                       - r.adjustments.netDebt
              /\ r.scenarios.base = r.impliedValue.equityValue

====
